---- MODULE Spec2Model ----
(***************************************************************************)
(* WorkChain / StickyChain: the hash-chained event log (Block, Chain),     *)
(* the indexed in-memory repositories (CardRepository, ProjectRepository,  *)
(* ProposalRepository, PaymentRepository, BoardRepository), the commands   *)
(* and the Application / PaymentService entry points that write to both.   *)
(*                                                                         *)
(* Conventions                                                             *)
(*  - JavaScript arrays are TLA+ sequences: JS index i is position i+1.    *)
(*    blockNumber and card position keep the 0-based values of the code.   *)
(*  - A JavaScript Map is a function whose DOMAIN is the set of keys.      *)
(*  - Object references held in a second container (Chain.blockIndex) are  *)
(*    positions into the owning array (Chain.blocks).                      *)
(*  - Optional properties: Absent means the key is not present, Undefined  *)
(*    means the key is present with the value undefined.                   *)
(*  - SHA-256 is modelled as a collision-free digest: the digest of a      *)
(*    text is the text itself under a tag; the hash "0" that the genesis   *)
(*    block names as its predecessor is the one-element value ZeroHash.    *)
(***************************************************************************)
EXTENDS Integers, Sequences, FiniteSets, TLC

VARIABLES
  now,             \* the wall clock read by new Date()
  blocks,          \* Chain.blocks
  blockIndex,      \* Chain.blockIndex : entityId -> positions of its blocks
  cardRepository,  \* CardRepository: cards and its four indices
  boardRepository, \* BoardRepository: boards and the owner index
  pending,         \* commands suspended at their await, in resumption order
  opLog,           \* history: the operations whose repository call succeeded
  returned,        \* the value the last Chain read operation returned
  projectRepository,  \* ProjectRepository: projects and its indices
  proposalRepository, \* ProposalRepository: proposals and its indices
  paymentRepository,  \* PaymentRepository: payments and its indices
  outcome,         \* how the last operation ended: returned, threw, ...
  edits,           \* the number of direct assignments to fields of stored blocks
  serviceChain,    \* the Chain the services were constructed with
  inflight         \* the PaymentService calls suspended at an await

chainVars == <<now, blocks, blockIndex>>
kanbanVars == <<boardRepository, pending, opLog>>
marketVars == <<projectRepository, proposalRepository, paymentRepository>>
auxVars == <<edits, serviceChain, inflight>>
restVars == <<kanbanVars, returned, marketVars, auxVars>>

---------------------------------------------------------------------------
(* Bounds of the model *)

MaxBlocks == 4
MaxTime == 2
MaxLoop == 8
MaxPosition == 1
MaxCards == 2
MaxBoards == 1
MaxPending == 2
MaxMarketBlocks == 6
MaxProjects == 1
MaxProposals == 2
MaxPayments == 1
MaxEdits == 2

---------------------------------------------------------------------------
(* Values *)

Absent == "<absent>"
Undefined == "<undefined>"
InvalidDate == -1
NoPosition == -1
NoBlock == -1
NoTime == -2

NoUpdates ==
  [boardId |-> Absent, columnId |-> Absent, assigneeId |-> Absent, parentId |-> Absent]

\* CommandData: the union of the payload shapes the commands build.
NoData ==
  [cardId |-> Absent, boardId |-> Absent, columnId |-> Absent, parentId |-> Absent,
   fromColumnId |-> Absent, toColumnId |-> Absent, position |-> NoPosition,
   updates |-> NoUpdates, assigneeId |-> Absent, projectId |-> Absent,
   name |-> Absent, ownerId |-> Absent, message |-> Absent]

---------------------------------------------------------------------------
(* Block *)

\* JSON.stringify omits every property whose value is undefined.
DropUndefined(v) == IF v = Undefined THEN Absent ELSE v

\* The properties that hold a number or a boolean, which is never undefined.
ScalarKeys ==
  {"position", "budget", "amount", "proposedBudget", "netAmount", "allCompleted"}

JsonStringify(data) ==
  [k \in DOMAIN data |->
     IF k \in ScalarKeys THEN data[k]
     ELSE IF k = "updates"
       THEN [u \in DOMAIN data[k] |-> DropUndefined(data[k][u])]
       ELSE DropUndefined(data[k])]

\* Date.prototype.toISOString: one string per valid instant; it throws a
\* RangeError on an invalid date.
ToISOString(t) == ToString(t)

Sha256(text) == <<"sha256", text>>

ZeroHash == <<"0">>

CalculateHash(b) ==
  Sha256(<<b.blockNumber, ToISOString(b.timestamp), b.action, b.entityType,
           b.entityId, JsonStringify(b.data), b.actorId, b.previousHash>>)

HashThrows(b) == b.timestamp = InvalidDate

IsValid(b) == b.hash = CalculateHash(b)

\* Variant: the hash is computed before previousHash is assigned.
NewBlockHashBeforeLink(blockNumber, action, entityType, entityId, data, actorId, previousHash, clock) ==
  LET b == [blockNumber |-> blockNumber, timestamp |-> clock, action |-> action,
            entityType |-> entityType, entityId |-> entityId, data |-> data,
            actorId |-> actorId, previousHash |-> ZeroHash, hash |-> ZeroHash]
  IN [b EXCEPT !.hash = CalculateHash(b), !.previousHash = previousHash]

NewBlock(blockNumber, action, entityType, entityId, data, actorId, previousHash, clock) ==
  LET b == [blockNumber |-> blockNumber, timestamp |-> clock, action |-> action,
            entityType |-> entityType, entityId |-> entityId, data |-> data,
            actorId |-> actorId, previousHash |-> previousHash, hash |-> ZeroHash]
  IN [b EXCEPT !.hash = CalculateHash(b)]

---------------------------------------------------------------------------
(* Chain *)

GenesisBlock(clock) ==
  NewBlock(0, "CREATE_BOARD", "Board", "genesis",
           [NoData EXCEPT !.message = "Genesis Block"], "system", ZeroHash, clock)

GetLatestBlock(bs) == bs[Len(bs)]

\* Variant: the new block links to the genesis block instead of the latest one.
AddBlockToLinkFirst(bs, idx, action, entityType, entityId, data, actorId, clock) ==
  LET previousBlock == bs[1]
      newBlock == NewBlock(Len(bs), action, entityType, entityId, data, actorId,
                           previousBlock.hash, clock)
      bs2 == Append(bs, newBlock)
      idx1 == IF entityId \in DOMAIN idx THEN idx
              ELSE [e \in DOMAIN idx \cup {entityId} |->
                      IF e \in DOMAIN idx THEN idx[e] ELSE <<>>]
      idx2 == [idx1 EXCEPT ![entityId] = Append(@, Len(bs2))]
  IN [blocks |-> bs2, blockIndex |-> idx2, newBlock |-> newBlock]

\* Variant: the index bucket is created anew on every append.
AddBlockToResetBucket(bs, idx, action, entityType, entityId, data, actorId, clock) ==
  LET previousBlock == GetLatestBlock(bs)
      newBlock == NewBlock(Len(bs), action, entityType, entityId, data, actorId,
                           previousBlock.hash, clock)
      bs2 == Append(bs, newBlock)
      idx2 == [e \in DOMAIN idx \cup {entityId} |->
                 IF e = entityId THEN <<Len(bs2)>> ELSE idx[e]]
  IN [blocks |-> bs2, blockIndex |-> idx2, newBlock |-> newBlock]

\* Variant: the new block takes the place of the latest block.
AddBlockToReplaceLatest(bs, idx, action, entityType, entityId, data, actorId, clock) ==
  LET previousBlock == GetLatestBlock(bs)
      newBlock == NewBlock(Len(bs) - 1, action, entityType, entityId, data, actorId,
                           previousBlock.previousHash, clock)
      bs2 == [bs EXCEPT ![Len(bs)] = newBlock]
      idx2 == [e \in DOMAIN idx \cup {entityId} |->
                 IF e = entityId THEN <<Len(bs2)>> ELSE idx[e]]
  IN [blocks |-> bs2, blockIndex |-> idx2, newBlock |-> newBlock]

\* Variant: the blocks from the first one that fails a check on are dropped
\* before the new block is appended.
AddBlockToSoundPrefix(bs, idx, action, entityType, entityId, data, actorId, clock) ==
  LET failing == {i \in 2..Len(bs) :
                    bs[i].hash # CalculateHash(bs[i]) \/ bs[i].previousHash # bs[i - 1].hash}
      keep == IF failing = {} THEN Len(bs)
              ELSE (CHOOSE i \in failing : \A j \in failing : i <= j) - 1
      sound == SubSeq(bs, 1, keep)
      newBlock == NewBlock(Len(sound), action, entityType, entityId, data, actorId,
                           GetLatestBlock(sound).hash, clock)
      bs2 == Append(sound, newBlock)
      idx2 == [e \in DOMAIN idx \cup {entityId} |->
                 IF e = entityId THEN <<Len(bs2)>> ELSE idx[e]]
  IN [blocks |-> bs2, blockIndex |-> idx2, newBlock |-> newBlock]

\* Chain.addBlock on the chain state (bs, idx): the new chain state.
AddBlockTo(bs, idx, action, entityType, entityId, data, actorId, clock) ==
  LET previousBlock == GetLatestBlock(bs)
      newBlock == NewBlock(Len(bs), action, entityType, entityId, data, actorId,
                           previousBlock.hash, clock)
      bs2 == Append(bs, newBlock)
      idx1 == IF entityId \in DOMAIN idx THEN idx
              ELSE [e \in DOMAIN idx \cup {entityId} |->
                      IF e \in DOMAIN idx THEN idx[e] ELSE <<>>]
      idx2 == [idx1 EXCEPT ![entityId] = Append(@, Len(bs2))]
  IN [blocks |-> bs2, blockIndex |-> idx2, newBlock |-> newBlock]

GetHistoryOf(bs, idx, entityId) ==
  IF entityId \in DOMAIN idx
    THEN [k \in 1..Len(idx[entityId]) |-> bs[idx[entityId][k]]]
    ELSE <<>>

GetHistory(entityId) == GetHistoryOf(blocks, blockIndex, entityId)

ValidResult == [valid |-> TRUE, brokenAtBlock |-> NoBlock, error |-> "", threw |-> FALSE]

\* Variant: only the hash of each block is tested, not its link.
RECURSIVE ValidateFromHashOnly(_, _)
ValidateFromHashOnly(bs, i) ==
  IF i > Len(bs) THEN ValidResult
  ELSE LET currentBlock == bs[i]
           previousBlock == bs[i - 1]
       IN IF HashThrows(currentBlock)
            THEN [valid |-> FALSE, brokenAtBlock |-> NoBlock,
                  error |-> "RangeError: Invalid time value", threw |-> TRUE]
          ELSE IF ~IsValid(currentBlock)
            THEN [valid |-> FALSE, brokenAtBlock |-> currentBlock.blockNumber,
                  error |-> "Block hash mismatch - data may be corrupted",
                  threw |-> FALSE]
          ELSE ValidateFromHashOnly(bs, i + 1)

\* Variant: the loop also verifies the hash of the genesis block.
RECURSIVE ValidateFromWithGenesis(_, _)
ValidateFromWithGenesis(bs, i) ==
  IF i > Len(bs) THEN ValidResult
  ELSE LET currentBlock == bs[i]
           previousBlock == bs[i - 1]
       IN IF HashThrows(currentBlock)
            THEN [valid |-> FALSE, brokenAtBlock |-> NoBlock,
                  error |-> "RangeError: Invalid time value", threw |-> TRUE]
          ELSE IF i = 2 /\ (HashThrows(previousBlock) \/ ~IsValid(previousBlock))
            THEN [valid |-> FALSE, brokenAtBlock |-> previousBlock.blockNumber,
                  error |-> "Block hash mismatch - data may be corrupted",
                  threw |-> FALSE]
          ELSE IF ~IsValid(currentBlock)
            THEN [valid |-> FALSE, brokenAtBlock |-> currentBlock.blockNumber,
                  error |-> "Block hash mismatch - data may be corrupted",
                  threw |-> FALSE]
          ELSE IF currentBlock.previousHash # previousBlock.hash
            THEN [valid |-> FALSE, brokenAtBlock |-> currentBlock.blockNumber,
                  error |-> "Chain broken - previousHash does not match previous block",
                  threw |-> FALSE]
          ELSE ValidateFromWithGenesis(bs, i + 1)

RECURSIVE ValidateFrom(_, _)
ValidateFrom(bs, i) ==
  IF i > Len(bs) THEN ValidResult
  ELSE LET currentBlock == bs[i]
           previousBlock == bs[i - 1]
       IN IF HashThrows(currentBlock)
            THEN [valid |-> FALSE, brokenAtBlock |-> NoBlock,
                  error |-> "RangeError: Invalid time value", threw |-> TRUE]
          ELSE IF ~IsValid(currentBlock)
            THEN [valid |-> FALSE, brokenAtBlock |-> currentBlock.blockNumber,
                  error |-> "Block hash mismatch - data may be corrupted",
                  threw |-> FALSE]
          ELSE IF currentBlock.previousHash # previousBlock.hash
            THEN [valid |-> FALSE, brokenAtBlock |-> currentBlock.blockNumber,
                  error |-> "Chain broken - previousHash does not match previous block",
                  threw |-> FALSE]
          ELSE ValidateFrom(bs, i + 1)

ValidateChainOf(bs) == ValidateFrom(bs, 2)

ValidateChain == ValidateChainOf(blocks)

\* Array.prototype.filter with block.timestamp <= upToTime.
RECURSIVE FilterUpTo(_, _)
FilterUpTo(events, upToTime) ==
  IF events = <<>> THEN <<>>
  ELSE LET rest == FilterUpTo(Tail(events), upToTime)
       IN IF Head(events).timestamp <= upToTime THEN <<Head(events)>> \o rest ELSE rest

\* replayEvents(entityId?, upToTime?): a JavaScript condition on a string is
\* false for undefined and for the empty string.
Truthy(s) == s # Undefined /\ s # ""

\* upToTime = NoTime stands for the omitted argument.
ReplayEvents(entityId, upToTime) ==
  LET events == IF Truthy(entityId) THEN GetHistory(entityId) ELSE blocks
  IN IF upToTime # NoTime THEN FilterUpTo(events, upToTime) ELSE events

GetAllBlocks == blocks

\* Array.prototype.filter with startTime <= block.timestamp <= endTime.
RECURSIVE FilterRange(_, _, _)
FilterRange(bs, startTime, endTime) ==
  IF bs = <<>> THEN <<>>
  ELSE LET rest == FilterRange(Tail(bs), startTime, endTime)
       IN IF Head(bs).timestamp >= startTime /\ Head(bs).timestamp <= endTime
            THEN <<Head(bs)>> \o rest ELSE rest

GetBlocksInRange(startTime, endTime) == FilterRange(blocks, startTime, endTime)

GetStats ==
  [totalBlocks |-> Len(blocks),
   uniqueEntities |-> Cardinality(DOMAIN blockIndex),
   actionCounts |-> [a \in {blocks[i].action : i \in 1..Len(blocks)} |->
                       Cardinality({i \in 1..Len(blocks) : blocks[i].action = a})],
   actorCounts |-> [a \in {blocks[i].actorId : i \in 1..Len(blocks)} |->
                      Cardinality({i \in 1..Len(blocks) : blocks[i].actorId = a})],
   latestBlockTime |-> GetLatestBlock(blocks).timestamp]

\* Block.toJSON: a plain object with the nine fields of the block.
BlockToJSON(b) ==
  [blockNumber |-> b.blockNumber, timestamp |-> b.timestamp, action |-> b.action,
   entityType |-> b.entityType, entityId |-> b.entityId, data |-> b.data,
   actorId |-> b.actorId, previousHash |-> b.previousHash, hash |-> b.hash]

ChainToJSON == [i \in 1..Len(blocks) |-> BlockToJSON(blocks[i])]

---------------------------------------------------------------------------
(* Maps *)

MapGet(m, k, default) == IF k \in DOMAIN m THEN m[k] ELSE default

MapSet(m, k, v) == [x \in DOMAIN m \cup {k} |-> IF x = k THEN v ELSE m[x]]

MapDelete(m, k) == [x \in DOMAIN m \ {k} |-> m[x]]

EmptyMap == <<>>

Includes(seq, x) == \E i \in 1..Len(seq) : seq[i] = x

\* Array.prototype.indexOf, as a position (0 when not found).
IndexOf(seq, x) ==
  IF Includes(seq, x) THEN CHOOSE i \in 1..Len(seq) :
                             seq[i] = x /\ \A j \in 1..(i - 1) : seq[j] # x
  ELSE 0

\* Array.prototype.splice(index, 1) at position i.
RemoveAt(seq, i) == SubSeq(seq, 1, i - 1) \o SubSeq(seq, i + 1, Len(seq))

\* Array.prototype.splice(position, 0, x): position is a 0-based index; a
\* position beyond the end inserts at the end, a negative one counts from the end.
SpliceInsert(seq, position, x) ==
  LET at == IF position < 0 THEN (IF Len(seq) + position < 0 THEN 0 ELSE Len(seq) + position)
            ELSE IF position > Len(seq) THEN Len(seq) ELSE position
  IN SubSeq(seq, 1, at) \o <<x>> \o SubSeq(seq, at + 1, Len(seq))

\* new Date(value) for a Date value: a Date with the same time value; an
\* invalid Date gives an invalid Date.
NewDate(value) == IF value = InvalidDate THEN InvalidDate ELSE value

\* Block.fromJSON: Object.assign(Object.create(Block.prototype),
\* { ...json, timestamp: new Date(json.timestamp) }); no hash is computed.
BlockFromJSON(json) ==
  [k \in DOMAIN json |-> IF k = "timestamp" THEN NewDate(json[k]) ELSE json[k]]

\* The loop of Chain.fromJSON: push the block, then index it under its entityId.
RECURSIVE FromJSONLoop(_, _)
FromJSONLoop(chain, json) ==
  IF json = <<>> THEN chain
  ELSE LET block == BlockFromJSON(Head(json))
           bs == Append(chain.blocks, block)
           bucket == MapGet(chain.blockIndex, block.entityId, <<>>)
       IN FromJSONLoop([blocks |-> bs,
                        blockIndex |-> MapSet(chain.blockIndex, block.entityId,
                                              Append(bucket, Len(bs)))],
                       Tail(json))

\* Variant: the genesis block of the new Chain is not removed.
ChainFromJSONKeepGenesis(json, clock) ==
  FromJSONLoop([blocks |-> <<GenesisBlock(clock)>>, blockIndex |-> EmptyMap], json)

\* Chain.fromJSON: a new Chain (its constructor adds a genesis block at the
\* time of the call), emptied and filled from json.
ChainFromJSON(json, clock) ==
  LET chain == [blocks |-> <<GenesisBlock(clock)>>, blockIndex |-> EmptyMap]
  IN FromJSONLoop([chain EXCEPT !.blocks = <<>>], json)

\* How a call ended: it returned (a value, false or null) or it threw.
NoOutcome == [status |-> "none", error |-> ""]
Returned == [status |-> "returned", error |-> ""]
ReturnedFalse == [status |-> "returned false", error |-> ""]
ReturnedNull == [status |-> "returned null", error |-> ""]
Threw(message) == [status |-> "threw", error |-> message]
\* The call has passed its repository call and waits at its await.
Suspended == [status |-> "suspended", error |-> ""]

\* No read operation has returned yet.
NoValue == [kind |-> "none"]

\* The services hold a reference to the Chain of the Application
\* (the variables blocks and blockIndex), not a Chain of their own.
SameChain == [shared |-> TRUE]

\* The value of an optional property in a condition: a missing key reads
\* as undefined.
Given(v) == v # Absent /\ v # Undefined /\ v # ""

---------------------------------------------------------------------------
(* CardRepository *)

EmptyCardRepository ==
  [cards |-> EmptyMap, boardIndex |-> EmptyMap, columnIndex |-> EmptyMap,
   userIndex |-> EmptyMap, parentIndex |-> EmptyMap]

NewCard(id, boardId, columnId, assigneeId, parentId) ==
  [id |-> id, boardId |-> boardId, columnId |-> columnId, assigneeId |-> assigneeId,
   parentId |-> parentId, position |-> 0]

\* columnCards.forEach((id, idx) => { c = cards.get(id); if (c) c.position = idx })
Renumber(cards, columnCards) ==
  [id \in DOMAIN cards |->
     IF Includes(columnCards, id)
       THEN [cards[id] EXCEPT !.position = IndexOf(columnCards, id) - 1]
       ELSE cards[id]]

RemoveFromColumnIndex(R, card) ==
  IF card.columnId \in DOMAIN R.columnIndex
    THEN LET columnCards == R.columnIndex[card.columnId]
             index == IndexOf(columnCards, card.id)
         IN IF index > 0
              THEN LET rest == RemoveAt(columnCards, index)
                   IN [R EXCEPT !.columnIndex[card.columnId] = rest,
                                !.cards = Renumber(R.cards, rest)]
              ELSE R
    ELSE R

RemoveFromUserIndex(R, card) ==
  IF Truthy(card.assigneeId) /\ card.assigneeId \in DOMAIN R.userIndex
    THEN [R EXCEPT !.userIndex[card.assigneeId] = @ \ {card.id}]
    ELSE R

UpdateIndices(R, card) ==
  LET boardSet == MapGet(R.boardIndex, card.boardId, {})
      b == MapSet(R.boardIndex, card.boardId, boardSet \cup {card.id})
      columnCards == MapGet(R.columnIndex, card.columnId, <<>>)
      c == MapSet(R.columnIndex, card.columnId,
                  IF Includes(columnCards, card.id) THEN columnCards
                  ELSE Append(columnCards, card.id))
      u == IF Truthy(card.assigneeId)
             THEN MapSet(R.userIndex, card.assigneeId,
                         MapGet(R.userIndex, card.assigneeId, {}) \cup {card.id})
             ELSE R.userIndex
      siblings == MapGet(R.parentIndex, card.parentId, <<>>)
      p == IF Truthy(card.parentId)
             THEN MapSet(R.parentIndex, card.parentId,
                         IF Includes(siblings, card.id) THEN siblings
                         ELSE Append(siblings, card.id))
             ELSE R.parentIndex
  IN [R EXCEPT !.boardIndex = b, !.columnIndex = c, !.userIndex = u, !.parentIndex = p]

RemoveFromIndices(R, card) ==
  LET R1 == IF card.boardId \in DOMAIN R.boardIndex
              THEN [R EXCEPT !.boardIndex[card.boardId] = @ \ {card.id}]
              ELSE R
      R2 == RemoveFromColumnIndex(R1, card)
      R3 == RemoveFromUserIndex(R2, card)
  IN IF Truthy(card.parentId) /\ card.parentId \in DOMAIN R3.parentIndex
       THEN LET siblings == R3.parentIndex[card.parentId]
                index == IndexOf(siblings, card.id)
            IN IF index > 0
                 THEN [R3 EXCEPT !.parentIndex[card.parentId] = RemoveAt(siblings, index)]
                 ELSE R3
       ELSE R3

\* Variant: create stores the position the caller supplied.
CardCreateKeepPosition(R, card) ==
  LET R1 == [R EXCEPT !.cards = MapSet(R.cards, card.id, card)]
  IN [repo |-> UpdateIndices(R1, card), outcome |-> Returned]

\* create(card): the repository after the call and the stored card.
CardCreate(R, card) ==
  LET columnCards == MapGet(R.columnIndex, card.columnId, <<>>)
      stored == [card EXCEPT !.position = Len(columnCards)]
      R1 == [R EXCEPT !.cards = MapSet(R.cards, card.id, stored)]
  IN [repo |-> UpdateIndices(R1, stored), outcome |-> Returned]

\* { ...card, ...updates }: a key of updates that is present wins.
Merge(card, updates) ==
  [k \in DOMAIN card |->
     IF k \in DOMAIN updates /\ updates[k] # Absent THEN updates[k] ELSE card[k]]

\* Variant: the card stays in the bucket of its old column.
CardUpdateKeepBucket(R, id, updates) ==
  IF id \notin DOMAIN R.cards
    THEN [repo |-> R, outcome |-> Threw("Card not found")]
    ELSE LET card == R.cards[id]
             R2 == IF Given(updates.assigneeId) /\ updates.assigneeId # card.assigneeId
                     THEN RemoveFromUserIndex(R, card) ELSE R
             updatedCard == Merge(card, updates)
             R3 == [R2 EXCEPT !.cards[id] = updatedCard]
         IN [repo |-> UpdateIndices(R3, updatedCard), outcome |-> Returned]

CardUpdate(R, id, updates) ==
  IF id \notin DOMAIN R.cards
    THEN [repo |-> R, outcome |-> Threw("Card not found")]
    ELSE LET card == R.cards[id]
             R1 == IF Given(updates.columnId) /\ updates.columnId # card.columnId
                     THEN RemoveFromColumnIndex(R, card) ELSE R
             R2 == IF Given(updates.assigneeId) /\ updates.assigneeId # card.assigneeId
                     THEN RemoveFromUserIndex(R1, card) ELSE R1
             updatedCard == Merge(card, updates)
             R3 == [R2 EXCEPT !.cards[id] = updatedCard]
         IN [repo |-> UpdateIndices(R3, updatedCard), outcome |-> Returned]

CardDelete(R, id) ==
  IF id \notin DOMAIN R.cards
    THEN [repo |-> R, outcome |-> ReturnedFalse]
    ELSE LET R1 == RemoveFromIndices(R, R.cards[id])
         IN [repo |-> [R1 EXCEPT !.cards = MapDelete(R1.cards, id)],
             outcome |-> Returned]

\* Variant: the card is moved between the buckets but keeps its columnId.
CardMoveKeepColumnId(R, cardId, toColumnId, position) ==
  IF cardId \notin DOMAIN R.cards
    THEN [repo |-> R, outcome |-> Threw("Card not found")]
    ELSE LET R1 == RemoveFromColumnIndex(R, R.cards[cardId])
             R2 == [R1 EXCEPT !.cards[cardId].position = position]
             columnCards == SpliceInsert(MapGet(R2.columnIndex, toColumnId, <<>>),
                                         position, cardId)
             R3 == [R2 EXCEPT !.columnIndex = MapSet(R2.columnIndex, toColumnId, columnCards),
                              !.cards = Renumber(R2.cards, columnCards)]
         IN [repo |-> R3, outcome |-> Returned]

\* Variant: the card is pushed at the end of the column.
CardMoveToEnd(R, cardId, toColumnId, position) ==
  IF cardId \notin DOMAIN R.cards
    THEN [repo |-> R, outcome |-> Threw("Card not found")]
    ELSE LET R1 == RemoveFromColumnIndex(R, R.cards[cardId])
             R2 == [R1 EXCEPT !.cards[cardId].columnId = toColumnId,
                              !.cards[cardId].position = position]
             columnCards == Append(MapGet(R2.columnIndex, toColumnId, <<>>), cardId)
             R3 == [R2 EXCEPT !.columnIndex = MapSet(R2.columnIndex, toColumnId, columnCards),
                              !.cards = Renumber(R2.cards, columnCards)]
         IN [repo |-> R3, outcome |-> Returned]

CardMove(R, cardId, toColumnId, position) ==
  IF cardId \notin DOMAIN R.cards
    THEN [repo |-> R, outcome |-> Threw("Card not found")]
    ELSE LET R1 == RemoveFromColumnIndex(R, R.cards[cardId])
             R2 == [R1 EXCEPT !.cards[cardId].columnId = toColumnId,
                              !.cards[cardId].position = position]
             columnCards == SpliceInsert(MapGet(R2.columnIndex, toColumnId, <<>>),
                                         position, cardId)
             R3 == [R2 EXCEPT !.columnIndex = MapSet(R2.columnIndex, toColumnId, columnCards),
                              !.cards = Renumber(R2.cards, columnCards)]
         IN [repo |-> R3, outcome |-> Returned]

\* ids.map(id => cards.get(id)).filter(card => card !== undefined)
RECURSIVE LiveCards(_, _)
LiveCards(R, ids) ==
  IF ids = <<>> THEN <<>>
  ELSE (IF Head(ids) \in DOMAIN R.cards THEN <<R.cards[Head(ids)]>> ELSE <<>>)
         \o LiveCards(R, Tail(ids))

\* Array.prototype.sort((a, b) => a.position - b.position): a stable sort.
RECURSIVE InsertByPosition(_, _)
InsertByPosition(sorted, card) ==
  IF sorted = <<>> THEN <<card>>
  ELSE IF card.position < Head(sorted).position THEN <<card>> \o sorted
  ELSE <<Head(sorted)>> \o InsertByPosition(Tail(sorted), card)

RECURSIVE SortByPosition(_)
SortByPosition(cs) ==
  IF cs = <<>> THEN <<>>
  ELSE InsertByPosition(SortByPosition(SubSeq(cs, 1, Len(cs) - 1)), cs[Len(cs)])

FindByBoard(R, boardId) ==
  {R.cards[id] : id \in MapGet(R.boardIndex, boardId, {}) \cap DOMAIN R.cards}

FindByColumn(R, columnId) ==
  SortByPosition(LiveCards(R, MapGet(R.columnIndex, columnId, <<>>)))

FindByAssignee(R, assigneeId) ==
  {R.cards[id] : id \in MapGet(R.userIndex, assigneeId, {}) \cap DOMAIN R.cards}

FindChildren(R, parentId) == LiveCards(R, MapGet(R.parentIndex, parentId, <<>>))

Ids(cs) == [i \in 1..Len(cs) |-> cs[i].id]

\* Variant: the children are collected but never pushed on the stack.
DescendantsLoopOneLevel(R, stack, descendants, fuel) ==
  IF stack = <<>> THEN [done |-> TRUE, descendants |-> descendants]
  ELSE [done |-> TRUE,
        descendants |-> descendants \o FindChildren(R, stack[Len(stack)])]

\* findAllDescendants: the loop over the explicit stack; fuel bounds the
\* number of iterations the model follows (the loop itself has no bound).
RECURSIVE DescendantsLoop(_, _, _, _)
DescendantsLoop(R, stack, descendants, fuel) ==
  IF stack = <<>> THEN [done |-> TRUE, descendants |-> descendants]
  ELSE IF fuel = 0 THEN [done |-> FALSE, descendants |-> descendants]
  ELSE LET currentId == stack[Len(stack)]
           children == FindChildren(R, currentId)
       IN DescendantsLoop(R, SubSeq(stack, 1, Len(stack) - 1) \o Ids(children),
                          descendants \o children, fuel - 1)

FindAllDescendants(R, parentId) ==
  DescendantsLoop(R, <<parentId>>, <<>>, MaxLoop)

-------------------------------------------------------------------------------------------------------------------------------------------------
(* BoardRepository *)

EmptyBoardRepository == [boards |-> EmptyMap, userIndex |-> EmptyMap]

\* BoardFactory.createFromTemplate: the board, without its presentation fields.
NewBoard(id, name, ownerId) == [id |-> id, name |-> name, ownerId |-> ownerId]

BoardCreate(B, board) ==
  [repo |-> [B EXCEPT !.boards = MapSet(B.boards, board.id, board),
                      !.userIndex = MapSet(B.userIndex, board.ownerId,
                                           MapGet(B.userIndex, board.ownerId, {})
                                             \cup {board.id})],
   outcome |-> Returned]

\* update(id, updates): { ...board, ...updates } stored under id.
BoardUpdate(B, id, updates) ==
  IF id \notin DOMAIN B.boards
    THEN [repo |-> B, outcome |-> Threw("Board not found")]
    ELSE [repo |-> [B EXCEPT !.boards[id] =
                      [k \in DOMAIN @ |-> IF k \in DOMAIN updates THEN updates[k] ELSE @[k]]],
          outcome |-> Returned]

BoardDelete(B, id) ==
  IF id \notin DOMAIN B.boards
    THEN [repo |-> B, outcome |-> ReturnedFalse]
    ELSE LET board == B.boards[id]
             userIndex == IF board.ownerId \in DOMAIN B.userIndex
                            THEN [B.userIndex EXCEPT ![board.ownerId] = @ \ {id}]
                            ELSE B.userIndex
         IN [repo |-> [boards |-> MapDelete(B.boards, id), userIndex |-> userIndex],
             outcome |-> Returned]

---------------------------------------------------------------------------
(* Commands: the fields a command hands to Chain.addBlock, and what its    *)
(* execute() does to the repository before it reaches addToChain.          *)

CreateCardCommand(cardId, boardId, columnId, actorId, parentId) ==
  [action |-> "CREATE_CARD", entityType |-> "Card", entityId |-> cardId,
   data |-> [NoData EXCEPT !.cardId = cardId, !.boardId = boardId,
                           !.columnId = columnId, !.parentId = parentId],
   actorId |-> actorId]

MoveCardCommand(cardId, fromColumnId, toColumnId, position, actorId) ==
  [action |-> "MOVE_CARD", entityType |-> "Card", entityId |-> cardId,
   data |-> [NoData EXCEPT !.cardId = cardId, !.fromColumnId = fromColumnId,
                           !.toColumnId = toColumnId, !.position = position],
   actorId |-> actorId]

UpdateCardCommand(cardId, updates, actorId) ==
  [action |-> "UPDATE_CARD", entityType |-> "Card", entityId |-> cardId,
   data |-> [NoData EXCEPT !.cardId = cardId, !.updates = updates],
   actorId |-> actorId]

AssignCardCommand(cardId, assigneeId, actorId) ==
  [action |-> "ASSIGN_CARD", entityType |-> "Card", entityId |-> cardId,
   data |-> [NoData EXCEPT !.cardId = cardId, !.assigneeId = assigneeId],
   actorId |-> actorId]

\* The inline addBlock arguments of Application.createBoard.
CreateBoardCall(board) ==
  [action |-> "CREATE_BOARD", entityType |-> "Board", entityId |-> board.id,
   data |-> [NoData EXCEPT !.name = board.name, !.ownerId = board.ownerId],
   actorId |-> board.ownerId]

\* The repository call of execute(), up to the await.
Execute(R, command) ==
  CASE command.action = "CREATE_CARD" ->
         CardCreate(R, NewCard(command.entityId, command.data.boardId,
                               command.data.columnId, Undefined, command.data.parentId))
    [] command.action = "MOVE_CARD" ->
         CardMove(R, command.entityId, command.data.toColumnId, command.data.position)
    [] command.action = "UPDATE_CARD" ->
         CardUpdate(R, command.entityId, command.data.updates)
    [] command.action = "ASSIGN_CARD" ->
         CardUpdate(R, command.entityId,
                    [NoUpdates EXCEPT !.assigneeId = command.data.assigneeId])

\* Variant: the block is appended under the board of the card.
AddToChainUnderBoard(bs, idx, command, clock) ==
  AddBlockTo(bs, idx, command.action, command.entityType,
             IF command.action = "CREATE_CARD" THEN command.data.boardId
             ELSE command.entityId,
             command.data, command.actorId, clock)

\* Command.addToChain
AddToChain(bs, idx, command, clock) ==
  AddBlockTo(bs, idx, command.action, command.entityType, command.entityId,
             command.data, command.actorId, clock)

\* nanoid(): an id that no entity carries yet; the n-th id handed out is
\* written prefix-n.
NanoId(prefix, n) == prefix \o "-" \o ToString(n)

---------------------------------------------------------------------------
(* ProjectRepository, ProposalRepository, PaymentRepository. An update     *)
(* argument (Partial<T>) is a record that holds the keys that are present. *)

Has(updates, key) == key \in DOMAIN updates

\* { ...entity, ...updates }
Spread(entity, updates) ==
  [k \in DOMAIN entity |-> IF Has(updates, k) THEN updates[k] ELSE entity[k]]

\* if (!index.has(key)) index.set(key, new Set()); index.get(key).add(id)
IndexAdd(index, key, id) == MapSet(index, key, MapGet(index, key, {}) \cup {id})

\* index.get(key)?.delete(id)
IndexDelete(index, key, id) ==
  IF key \in DOMAIN index THEN [index EXCEPT ![key] = @ \ {id}] ELSE index

\* The status index after an update of entity id.
StatusIndexUpdate(index, id, oldStatus, updates) ==
  IF Has(updates, "status") /\ Truthy(updates.status) /\ updates.status # oldStatus
    THEN IndexAdd(IndexDelete(index, oldStatus, id), updates.status, id)
    ELSE index

EmptyProjectRepository ==
  [projects |-> EmptyMap, clientIndex |-> EmptyMap, freelancerIndex |-> EmptyMap,
   statusIndex |-> EmptyMap, skillIndex |-> EmptyMap]

\* The project CreateProjectCommand builds; timeline.milestones is the
\* field milestones, budget is budget.amount.
NewProject(id, clientId, amount) ==
  [id |-> id, clientId |-> clientId, status |-> "draft",
   assignedFreelancerId |-> Undefined, budget |-> amount, milestones |-> <<>>,
   proposals |-> <<>>, skills |-> {"typescript"}]

ProjectCreate(P, entity) ==
  LET skillIndex == [k \in DOMAIN P.skillIndex \cup entity.skills |->
                       IF k \in entity.skills
                         THEN MapGet(P.skillIndex, k, {}) \cup {entity.id}
                         ELSE P.skillIndex[k]]
  IN [P EXCEPT !.projects = MapSet(P.projects, entity.id, entity),
               !.clientIndex = IndexAdd(P.clientIndex, entity.clientId, entity.id),
               !.statusIndex = IndexAdd(P.statusIndex, entity.status, entity.id),
               !.skillIndex = skillIndex,
               !.freelancerIndex =
                  IF Truthy(entity.assignedFreelancerId)
                    THEN IndexAdd(P.freelancerIndex, entity.assignedFreelancerId, entity.id)
                    ELSE P.freelancerIndex]

\* Variant: an update of an id that is not stored stores the updates under it.
ProjectUpdateUpsert(P, id, updates) ==
  IF id \notin DOMAIN P.projects
    THEN [repo |-> [P EXCEPT !.projects = MapSet(P.projects, id, updates)], found |-> TRUE]
  ELSE [repo |-> [P EXCEPT !.projects = MapSet(P.projects, id, Spread(P.projects[id], updates))],
        found |-> TRUE]

\* update(id, updates): the repository after the call; found is false when
\* the call returned null.
ProjectUpdate(P, id, updates) ==
  IF id \notin DOMAIN P.projects THEN [repo |-> P, found |-> FALSE]
  ELSE LET project == P.projects[id]
           oldStatus == project.status
           oldFreelancer == project.assignedFreelancerId
           updated == Spread(project, updates)
           freelancerIndex ==
             IF Has(updates, "assignedFreelancerId")
                  /\ updates.assignedFreelancerId # Undefined
                  /\ updates.assignedFreelancerId # oldFreelancer
               THEN LET removed == IF Truthy(oldFreelancer)
                                     THEN IndexDelete(P.freelancerIndex, oldFreelancer, id)
                                     ELSE P.freelancerIndex
                    IN IF Truthy(updates.assignedFreelancerId)
                         THEN IndexAdd(removed, updates.assignedFreelancerId, id)
                         ELSE removed
               ELSE P.freelancerIndex
       IN [repo |-> [P EXCEPT !.projects = MapSet(P.projects, id, updated),
                              !.statusIndex = StatusIndexUpdate(P.statusIndex, id,
                                                                oldStatus, updates),
                              !.freelancerIndex = freelancerIndex],
           found |-> TRUE]

\* delete(id): deleted is the boolean the call returned.
ProjectDelete(P, id) ==
  IF id \notin DOMAIN P.projects THEN [repo |-> P, deleted |-> FALSE]
  ELSE LET project == P.projects[id]
       IN [repo |-> [P EXCEPT
                       !.projects = MapDelete(P.projects, id),
                       !.clientIndex = IndexDelete(P.clientIndex, project.clientId, id),
                       !.statusIndex = IndexDelete(P.statusIndex, project.status, id),
                       !.skillIndex = [k \in DOMAIN P.skillIndex |->
                                         IF k \in project.skills THEN P.skillIndex[k] \ {id}
                                         ELSE P.skillIndex[k]],
                       !.freelancerIndex =
                          IF Truthy(project.assignedFreelancerId)
                            THEN IndexDelete(P.freelancerIndex, project.assignedFreelancerId, id)
                            ELSE P.freelancerIndex],
           deleted |-> TRUE]

\* addProposal: project.proposals.push(proposal) on the stored project.
ProjectAddProposal(P, projectId, proposal) ==
  IF projectId \notin DOMAIN P.projects THEN P
  ELSE [P EXCEPT !.projects[projectId].proposals = Append(@, proposal)]

EmptyProposalRepository ==
  [proposals |-> EmptyMap, projectIndex |-> EmptyMap, freelancerIndex |-> EmptyMap,
   statusIndex |-> EmptyMap]

ProposalCreate(Q, entity) ==
  [Q EXCEPT !.proposals = MapSet(Q.proposals, entity.id, entity),
            !.projectIndex = IndexAdd(Q.projectIndex, entity.projectId, entity.id),
            !.freelancerIndex = IndexAdd(Q.freelancerIndex, entity.freelancerId, entity.id),
            !.statusIndex = IndexAdd(Q.statusIndex, entity.status, entity.id)]

ProposalUpdate(Q, id, updates) ==
  IF id \notin DOMAIN Q.proposals THEN [repo |-> Q, found |-> FALSE]
  ELSE LET proposal == Q.proposals[id]
       IN [repo |-> [Q EXCEPT !.proposals = MapSet(Q.proposals, id, Spread(proposal, updates)),
                              !.statusIndex = StatusIndexUpdate(Q.statusIndex, id,
                                                                proposal.status, updates)],
           found |-> TRUE]

ProposalDelete(Q, id) ==
  IF id \notin DOMAIN Q.proposals THEN [repo |-> Q, deleted |-> FALSE]
  ELSE LET proposal == Q.proposals[id]
       IN [repo |-> [Q EXCEPT
                       !.proposals = MapDelete(Q.proposals, id),
                       !.projectIndex = IndexDelete(Q.projectIndex, proposal.projectId, id),
                       !.freelancerIndex =
                          IndexDelete(Q.freelancerIndex, proposal.freelancerId, id),
                       !.statusIndex = IndexDelete(Q.statusIndex, proposal.status, id)],
           deleted |-> TRUE]

\* findByProject: the stored proposals of the bucket (the order in which
\* they are returned plays no part in what the callers do with them).
ProposalFindByProject(Q, projectId) ==
  {Q.proposals[id] : id \in MapGet(Q.projectIndex, projectId, {}) \cap DOMAIN Q.proposals}

\* findByProjectAndFreelancer(...) is not null
ProposalExists(Q, projectId, freelancerId) ==
  \E p \in ProposalFindByProject(Q, projectId) : p.freelancerId = freelancerId

EmptyPaymentRepository ==
  [payments |-> EmptyMap, projectIndex |-> EmptyMap, clientIndex |-> EmptyMap,
   freelancerIndex |-> EmptyMap, statusIndex |-> EmptyMap, milestoneIndex |-> EmptyMap]

PaymentCreate(Y, entity) ==
  [Y EXCEPT !.payments = MapSet(Y.payments, entity.id, entity),
            !.projectIndex = IndexAdd(Y.projectIndex, entity.projectId, entity.id),
            !.clientIndex = IndexAdd(Y.clientIndex, entity.clientId, entity.id),
            !.freelancerIndex = IndexAdd(Y.freelancerIndex, entity.freelancerId, entity.id),
            !.statusIndex = IndexAdd(Y.statusIndex, entity.status, entity.id),
            !.milestoneIndex = IF Truthy(entity.milestoneId)
                                 THEN MapSet(Y.milestoneIndex, entity.milestoneId, entity.id)
                                 ELSE Y.milestoneIndex]

PaymentUpdate(Y, id, updates) ==
  IF id \notin DOMAIN Y.payments THEN [repo |-> Y, found |-> FALSE]
  ELSE LET payment == Y.payments[id]
       IN [repo |-> [Y EXCEPT !.payments = MapSet(Y.payments, id, Spread(payment, updates)),
                              !.statusIndex = StatusIndexUpdate(Y.statusIndex, id,
                                                                payment.status, updates)],
           found |-> TRUE]

PaymentDelete(Y, id) ==
  IF id \notin DOMAIN Y.payments THEN [repo |-> Y, deleted |-> FALSE]
  ELSE LET payment == Y.payments[id]
       IN [repo |-> [Y EXCEPT
                       !.payments = MapDelete(Y.payments, id),
                       !.projectIndex = IndexDelete(Y.projectIndex, payment.projectId, id),
                       !.clientIndex = IndexDelete(Y.clientIndex, payment.clientId, id),
                       !.freelancerIndex =
                          IndexDelete(Y.freelancerIndex, payment.freelancerId, id),
                       !.statusIndex = IndexDelete(Y.statusIndex, payment.status, id),
                       !.milestoneIndex =
                          IF Truthy(payment.milestoneId)
                            THEN MapDelete(Y.milestoneIndex, payment.milestoneId)
                            ELSE Y.milestoneIndex],
           deleted |-> TRUE]

---------------------------------------------------------------------------
(* The marketplace commands and PaymentService. Each operation is computed *)
(* in the order of its code on the world W: the three repositories and the *)
(* chain. Where the code throws, the result is the world as it is at that  *)
(* statement.                                                              *)

Done(W) == [world |-> W, outcome |-> Returned]

Reject(W, message) == [world |-> W, outcome |-> Threw(message)]

\* this.chain.addBlock(...)
Log(W, action, entityType, entityId, data, actorId, clock) ==
  LET r == AddBlockTo(W.blocks, W.blockIndex, action, entityType, entityId, data,
                      actorId, clock)
  IN [W EXCEPT !.blocks = r.blocks, !.blockIndex = r.blockIndex]

CreateProjectExecute(W, projectId, clientId, amount, actorId, clock) ==
  LET project == NewProject(projectId, clientId, amount)
      W1 == [W EXCEPT !.projectRepository = ProjectCreate(@, project)]
  IN Done(Log(W1, "CREATE_PROJECT", "Project", projectId,
              [title |-> "Project", clientId |-> clientId, budget |-> amount,
               projectType |-> "development"], actorId, clock))

PublishProjectExecute(W, projectId, actorId, clock) ==
  IF projectId \notin DOMAIN W.projectRepository.projects
    THEN Reject(W, "Project not found")
  ELSE LET project == W.projectRepository.projects[projectId]
       IN IF project.status # "draft"
            THEN Reject(W, "Only draft projects can be published")
          ELSE LET W1 == [W EXCEPT !.projectRepository =
                                     ProjectUpdate(@, projectId, [status |-> "open"]).repo]
               IN Done(Log(W1, "PUBLISH_PROJECT", "Project", projectId,
                           [title |-> "Project", budget |-> project.budget],
                           actorId, clock))

NewProposal(id, projectId, freelancerId, amount, milestones, clock) ==
  [id |-> id, projectId |-> projectId, freelancerId |-> freelancerId,
   proposedBudget |-> amount, milestones |-> milestones, status |-> "submitted",
   submittedAt |-> clock]

\* Variant: the project stays open after a proposal.
SubmitProposalExecuteKeepOpen(W, proposalId, projectId, freelancerId, amount, milestones, clock) ==
  IF projectId \notin DOMAIN W.projectRepository.projects
    THEN Reject(W, "Project not found")
  ELSE LET project == W.projectRepository.projects[projectId]
       IN IF project.status # "open"
            THEN Reject(W, "Project is not open for proposals")
          ELSE IF ProposalExists(W.proposalRepository, projectId, freelancerId)
            THEN Reject(W, "Freelancer already submitted a proposal for this project")
          ELSE LET proposal == NewProposal(proposalId, projectId, freelancerId, amount,
                                           milestones, clock)
                   W1 == [W EXCEPT !.proposalRepository = ProposalCreate(@, proposal)]
                   W2 == [W1 EXCEPT !.projectRepository =
                                      ProjectAddProposal(@, projectId, proposal)]
                   W3 == W2
               IN Done(Log(W3, "SUBMIT_PROPOSAL", "Proposal", proposalId,
                           [projectId |-> projectId, freelancerId |-> freelancerId,
                            proposedBudget |-> amount], freelancerId, clock))

SubmitProposalExecute(W, proposalId, projectId, freelancerId, amount, milestones, clock) ==
  IF projectId \notin DOMAIN W.projectRepository.projects
    THEN Reject(W, "Project not found")
  ELSE LET project == W.projectRepository.projects[projectId]
       IN IF project.status # "open"
            THEN Reject(W, "Project is not open for proposals")
          ELSE IF ProposalExists(W.proposalRepository, projectId, freelancerId)
            THEN Reject(W, "Freelancer already submitted a proposal for this project")
          ELSE LET proposal == NewProposal(proposalId, projectId, freelancerId, amount,
                                           milestones, clock)
                   W1 == [W EXCEPT !.proposalRepository = ProposalCreate(@, proposal)]
                   W2 == [W1 EXCEPT !.projectRepository =
                                      ProjectAddProposal(@, projectId, proposal)]
                   W3 == IF project.status = "open"
                           THEN [W2 EXCEPT !.projectRepository =
                                   ProjectUpdate(@, projectId, [status |-> "in_review"]).repo]
                           ELSE W2
               IN Done(Log(W3, "SUBMIT_PROPOSAL", "Proposal", proposalId,
                           [projectId |-> projectId, freelancerId |-> freelancerId,
                            proposedBudget |-> amount], freelancerId, clock))

\* for (const p of allProposals) if (p.id !== proposalId && p.status ===
\* 'submitted') update(p.id, { status: 'rejected' })
RECURSIVE RejectOthers(_, _, _)
RejectOthers(Q, allProposals, proposalId) ==
  IF allProposals = {} THEN Q
  ELSE LET p == CHOOSE x \in allProposals : TRUE
           Q1 == IF p.id # proposalId /\ p.status = "submitted"
                   THEN ProposalUpdate(Q, p.id, [status |-> "rejected"]).repo
                   ELSE Q
       IN RejectOthers(Q1, allProposals \ {p}, proposalId)

\* The number of milestone ids handed out so far.
MilestoneCount(P) ==
  LET ids == UNION {{P.projects[p].milestones[k].id : k \in 1..Len(P.projects[p].milestones)} :
                      p \in DOMAIN P.projects}
  IN Cardinality(ids)

\* proposal.milestones.map((m, idx) => ({ id: nanoid(), ..., status: idx === 0 ?
\* 'in_progress' : 'pending' }))
MilestonesOf(proposal, issued) ==
  [k \in 1..Len(proposal.milestones) |->
     [id |-> NanoId("milestone", issued + k), projectId |-> proposal.projectId,
      title |-> proposal.milestones[k].title, amount |-> proposal.milestones[k].amount,
      status |-> IF k = 1 THEN "in_progress" ELSE "pending"]]

AcceptProposalExecute(W, proposalId, actorId, clock) ==
  IF proposalId \notin DOMAIN W.proposalRepository.proposals
    THEN Reject(W, "Proposal not found")
  ELSE LET proposal == W.proposalRepository.proposals[proposalId]
       IN IF proposal.projectId \notin DOMAIN W.projectRepository.projects
            THEN Reject(W, "Project not found")
          ELSE LET W1 == [W EXCEPT !.proposalRepository =
                            ProposalUpdate(@, proposalId, [status |-> "accepted"]).repo]
                   allProposals == ProposalFindByProject(W1.proposalRepository,
                                                         proposal.projectId)
                   W2 == [W1 EXCEPT !.proposalRepository =
                            RejectOthers(@, allProposals, proposalId)]
                   W3 == [W2 EXCEPT !.projectRepository =
                            ProjectUpdate(@, proposal.projectId,
                              [status |-> "assigned",
                               assignedFreelancerId |-> proposal.freelancerId,
                               budget |-> proposal.proposedBudget,
                               milestones |-> MilestonesOf(proposal,
                                                MilestoneCount(W2.projectRepository))]).repo]
               IN Done(Log(W3, "ACCEPT_PROPOSAL", "Proposal", proposalId,
                           [projectId |-> proposal.projectId,
                            freelancerId |-> proposal.freelancerId,
                            amount |-> proposal.proposedBudget], actorId, clock))

\* milestones.findIndex(m => m.id === milestoneId), as a position (0: none)
MilestoneIndex(milestones, milestoneId) ==
  IF \E k \in 1..Len(milestones) : milestones[k].id = milestoneId
    THEN CHOOSE k \in 1..Len(milestones) :
           milestones[k].id = milestoneId /\ \A j \in 1..(k - 1) : milestones[j].id # milestoneId
    ELSE 0

\* Variant: the milestone is marked submitted before its status is tested.
SubmitMilestoneExecuteMarkFirst(W, projectId, milestoneId, actorId, clock) ==
  IF projectId \notin DOMAIN W.projectRepository.projects
    THEN Reject(W, "Project not found")
  ELSE LET project == W.projectRepository.projects[projectId]
           k == MilestoneIndex(project.milestones, milestoneId)
       IN IF k = 0 THEN Reject(W, "Milestone not found")
          ELSE LET W1 == [W EXCEPT !.projectRepository.projects[projectId].milestones[k].status =
                                     "submitted"]
               IN IF project.milestones[k].status # "in_progress"
                    THEN Reject(W1, "Milestone must be in progress to submit")
                  ELSE Done(Log(W1, "SUBMIT_MILESTONE", "Milestone", milestoneId,
                                [projectId |-> projectId,
                                 milestoneTitle |-> project.milestones[k].title],
                                actorId, clock))

SubmitMilestoneExecute(W, projectId, milestoneId, actorId, clock) ==
  IF projectId \notin DOMAIN W.projectRepository.projects
    THEN Reject(W, "Project not found")
  ELSE LET project == W.projectRepository.projects[projectId]
           k == MilestoneIndex(project.milestones, milestoneId)
       IN IF k = 0 THEN Reject(W, "Milestone not found")
          ELSE IF project.milestones[k].status # "in_progress"
            THEN Reject(W, "Milestone must be in progress to submit")
          ELSE \* milestone.status = 'submitted' on the stored project, then update
               LET W1 == [W EXCEPT !.projectRepository.projects[projectId].milestones[k].status =
                                     "submitted"]
                   timeline == W1.projectRepository.projects[projectId].milestones
                   W2 == [W1 EXCEPT !.projectRepository =
                            ProjectUpdate(@, projectId, [milestones |-> timeline]).repo]
               IN Done(Log(W2, "SUBMIT_MILESTONE", "Milestone", milestoneId,
                           [projectId |-> projectId,
                            milestoneTitle |-> project.milestones[k].title],
                           actorId, clock))

\* Variant: a milestone is approved whatever its status.
ApproveMilestoneExecuteUnguarded(W, projectId, milestoneId, actorId, clock) ==
  IF projectId \notin DOMAIN W.projectRepository.projects
    THEN Reject(W, "Project not found")
  ELSE LET project == W.projectRepository.projects[projectId]
           k == MilestoneIndex(project.milestones, milestoneId)
       IN IF k = 0 THEN Reject(W, "Milestone not found")
          ELSE LET approved == [project.milestones EXCEPT ![k].status = "approved"]
                   timeline == IF k + 1 <= Len(approved)
                                 THEN [approved EXCEPT ![k + 1].status = "in_progress"]
                                 ELSE approved
                   allCompleted == \A j \in 1..Len(timeline) : timeline[j].status = "approved"
                   W1 == [W EXCEPT !.projectRepository.projects[projectId].milestones = timeline]
                   W2 == [W1 EXCEPT !.projectRepository =
                            ProjectUpdate(@, projectId,
                              [milestones |-> timeline,
                               status |-> IF allCompleted THEN "completed"
                                          ELSE "in_progress"]).repo]
               IN Done(Log(W2, "APPROVE_MILESTONE", "Milestone", milestoneId,
                           [projectId |-> projectId,
                            milestoneTitle |-> project.milestones[k].title,
                            allCompleted |-> allCompleted], actorId, clock))

ApproveMilestoneExecute(W, projectId, milestoneId, actorId, clock) ==
  IF projectId \notin DOMAIN W.projectRepository.projects
    THEN Reject(W, "Project not found")
  ELSE LET project == W.projectRepository.projects[projectId]
           k == MilestoneIndex(project.milestones, milestoneId)
       IN IF k = 0 THEN Reject(W, "Milestone not found")
          ELSE IF project.milestones[k].status # "submitted"
            THEN Reject(W, "Milestone must be submitted to approve")
          ELSE LET approved == [project.milestones EXCEPT ![k].status = "approved"]
                   timeline == IF k + 1 <= Len(approved)
                                 THEN [approved EXCEPT ![k + 1].status = "in_progress"]
                                 ELSE approved
                   allCompleted == \A j \in 1..Len(timeline) : timeline[j].status = "approved"
                   W1 == [W EXCEPT !.projectRepository.projects[projectId].milestones = timeline]
                   W2 == [W1 EXCEPT !.projectRepository =
                            ProjectUpdate(@, projectId,
                              [milestones |-> timeline,
                               status |-> IF allCompleted THEN "completed"
                                          ELSE "in_progress"]).repo]
               IN Done(Log(W2, "APPROVE_MILESTONE", "Milestone", milestoneId,
                           [projectId |-> projectId,
                            milestoneTitle |-> project.milestones[k].title,
                            allCompleted |-> allCompleted], actorId, clock))

\* Amounts are in cents. PLATFORM_FEE_RATE = 0.10
PlatformFee(amount) == (amount * 10) \div 100

CalculateGatewayFee(amount, gateway) ==
  CASE gateway = "stripe" -> (amount * 29) \div 1000 + 30
    [] gateway = "crypto" -> 500
    [] OTHER -> 0

SupportedGateways == {"stripe", "paypal", "venmo", "wise", "crypto"}

CreatePayment(W, paymentId, projectId, milestoneId, clientId, freelancerId, amount, gateway, actorId, clock) ==
  LET payment == [id |-> paymentId, projectId |-> projectId, milestoneId |-> milestoneId,
                  clientId |-> clientId, freelancerId |-> freelancerId, amount |-> amount,
                  status |-> "pending", gateway |-> gateway,
                  platformFee |-> PlatformFee(amount),
                  gatewayFee |-> CalculateGatewayFee(amount, gateway),
                  gatewayTransactionId |-> Undefined]
      W1 == [W EXCEPT !.paymentRepository = PaymentCreate(@, payment)]
  IN Done(Log(W1, "CREATE_PAYMENT", "Payment", paymentId,
              [projectId |-> projectId, milestoneId |-> milestoneId, amount |-> amount,
               gateway |-> gateway, clientId |-> clientId, freelancerId |-> freelancerId],
              actorId, clock))

\* Variant: the status of the payment is not tested.
SettleAnyStatus(W, paymentId, required, message, updates, action, data, actorId, clock) ==
  IF paymentId \notin DOMAIN W.paymentRepository.payments
    THEN Reject(W, "Payment not found")
  ELSE LET payment == W.paymentRepository.payments[paymentId]
       IN IF payment.gateway \notin SupportedGateways
            THEN Reject(W, "Unsupported payment gateway")
          ELSE LET r == PaymentUpdate(W.paymentRepository, paymentId, updates)
                   W1 == [W EXCEPT !.paymentRepository = r.repo]
               IN IF ~r.found THEN Reject(W1, "Failed to update payment")
                  ELSE Done(Log(W1, action, "Payment", paymentId, data, actorId, clock))

\* The common shape of escrowPayment, releasePayment and refundPayment.
Settle(W, paymentId, required, message, updates, action, data, actorId, clock) ==
  IF paymentId \notin DOMAIN W.paymentRepository.payments
    THEN Reject(W, "Payment not found")
  ELSE LET payment == W.paymentRepository.payments[paymentId]
       IN IF payment.status # required THEN Reject(W, message)
          ELSE IF payment.gateway \notin SupportedGateways
            THEN Reject(W, "Unsupported payment gateway")
          ELSE LET r == PaymentUpdate(W.paymentRepository, paymentId, updates)
                   W1 == [W EXCEPT !.paymentRepository = r.repo]
               IN IF ~r.found THEN Reject(W1, "Failed to update payment")
                  ELSE Done(Log(W1, action, "Payment", paymentId, data, actorId, clock))

EscrowPayment(W, paymentId, actorId, clock) ==
  LET gatewayTransactionId == "gateway_" \o paymentId
      amount == IF paymentId \in DOMAIN W.paymentRepository.payments
                  THEN W.paymentRepository.payments[paymentId].amount ELSE 0
  IN Settle(W, paymentId, "pending", "Payment must be in PENDING status to escrow",
            [status |-> "escrowed", gatewayTransactionId |-> gatewayTransactionId],
            "ESCROW_PAYMENT",
            [gatewayTransactionId |-> gatewayTransactionId, amount |-> amount],
            actorId, clock)

ReleasePayment(W, paymentId, actorId, clock) ==
  LET payment == IF paymentId \in DOMAIN W.paymentRepository.payments
                   THEN W.paymentRepository.payments[paymentId]
                   ELSE [freelancerId |-> Undefined, amount |-> 0, platformFee |-> 0,
                         gatewayFee |-> 0]
  IN Settle(W, paymentId, "escrowed", "Payment must be in ESCROWED status to release",
            [status |-> "released"], "RELEASE_PAYMENT",
            [freelancerId |-> payment.freelancerId, amount |-> payment.amount,
             netAmount |-> payment.amount - payment.platformFee - payment.gatewayFee],
            actorId, clock)

RefundPayment(W, paymentId, actorId, clock) ==
  LET payment == IF paymentId \in DOMAIN W.paymentRepository.payments
                   THEN W.paymentRepository.payments[paymentId]
                   ELSE [clientId |-> Undefined, amount |-> 0]
  IN Settle(W, paymentId, "escrowed", "Payment must be in ESCROWED status to refund",
            [status |-> "refunded"], "REFUND_PAYMENT",
            [clientId |-> payment.clientId, amount |-> payment.amount],
            actorId, clock)

DisputePayment(W, paymentId, reason, actorId, clock) ==
  IF paymentId \notin DOMAIN W.paymentRepository.payments
    THEN Reject(W, "Payment not found")
  ELSE LET r == PaymentUpdate(W.paymentRepository, paymentId, [status |-> "disputed"])
           W1 == [W EXCEPT !.paymentRepository = r.repo]
       IN IF ~r.found THEN Reject(W1, "Failed to update payment")
          ELSE Done(Log(W1, "DISPUTE_PAYMENT", "Payment", paymentId,
                        [reason |-> reason, disputedBy |-> actorId], actorId, clock))

-----
(* Inputs of the direct Chain.addBlock calls *)

EntityIds == {"", "genesis", "card-1"}
Actions == {"CREATE_CARD", "MOVE_CARD"}

\* The actions logged under an entity id: a card is created and moved; the
\* other ids are logged under one action.
ActionsOn(entityId) == IF entityId = "card-1" THEN Actions ELSE {"CREATE_CARD"}

CallData(action, entityId) ==
  IF action = "CREATE_CARD"
    THEN [NoData EXCEPT !.cardId = entityId, !.columnId = "todo", !.parentId = Undefined]
    ELSE [NoData EXCEPT !.cardId = entityId, !.fromColumnId = "todo",
                        !.toColumnId = "done", !.position = 0]

---------------------------------------------------------------------------
(* Inputs of the direct CardRepository calls *)

RepoCardIds == {"c1", "c2"}
RepoParents == {"c1"}
TreeCardIds == {"c1", "c2", "c3", "c4"}
Boards == {"b1", "b2"}
Columns == {"todo", "done"}
Users == {"u1"}

\* Partial<Card> arguments: no indexed key, or one indexed key set (for the
\* optional keys also: set to undefined).
CardUpdates ==
  {NoUpdates}
    \cup {[NoUpdates EXCEPT !.boardId = b] : b \in Boards}
    \cup {[NoUpdates EXCEPT !.columnId = c] : c \in Columns}
    \cup {[NoUpdates EXCEPT !.assigneeId = u] : u \in Users \cup {Undefined}}
    \cup {[NoUpdates EXCEPT !.parentId = p] : p \in RepoParents \cup {Undefined}}

---------------------------------------------------------------------------
(* Inputs of the Application entry points *)

AppCardIds == {NanoId("card", n) : n \in 1..MaxCards}
AppBoardIds == {NanoId("board", n) : n \in 1..MaxBoards}
UnknownCardId == "card-x"

AppUpdates ==
  {[NoUpdates EXCEPT !.columnId = c] : c \in Columns}
    \cup {[NoUpdates EXCEPT !.assigneeId = Undefined]}

---------------------------------------------------------------------------
(* Inputs of the marketplace commands and of PaymentService *)

ProjectIds == {NanoId("project", n) : n \in 1..MaxProjects} \cup {"project-x"}
ProposalIds == {NanoId("proposal", n) : n \in 1..MaxProposals} \cup {"proposal-x"}
MilestoneIds == {NanoId("milestone", n) : n \in 1..2} \cup {"milestone-x"}
PaymentIds == {NanoId("payment", n) : n \in 1..MaxPayments} \cup {"payment-x"}
Clients == {"client-1"}
Freelancers == {"freelancer-1", "freelancer-2"}
Amounts == {100000}
Gateways == {"stripe", "bank"}

\* The milestones a proposal offers: one, or two of half the amount.
MilestonePlans ==
  {<<[title |-> "Delivery", amount |-> 100000]>>,
   <<[title |-> "Design", amount |-> 50000], [title |-> "Build", amount |-> 50000]>>}

---------------------------------------------------------------------------
(* Actions *)

vars == <<now, blocks, blockIndex, cardRepository, boardRepository, pending, opLog,
         returned, projectRepository, proposalRepository, paymentRepository, outcome,
         edits, serviceChain, inflight>>

Init ==
  /\ now = 0
  /\ blocks = <<GenesisBlock(0)>>
  /\ blockIndex = EmptyMap
  /\ cardRepository = EmptyCardRepository
  /\ boardRepository = EmptyBoardRepository
  /\ pending = <<>>
  /\ opLog = <<>>
  /\ returned = NoValue
  /\ projectRepository = EmptyProjectRepository
  /\ proposalRepository = EmptyProposalRepository
  /\ paymentRepository = EmptyPaymentRepository
  /\ outcome = NoOutcome
  /\ edits = 0
  /\ serviceChain = SameChain
  /\ inflight = <<>>

\* Time passes.
Tick ==
  /\ now < MaxTime
  /\ now' = now + 1
  /\ UNCHANGED <<blocks, blockIndex, cardRepository, outcome, restVars>>

\* The wall clock is set back (Date is not monotonic).
ClockSetBack ==
  /\ \E t \in 0..(now - 1) : now' = t
  /\ UNCHANGED <<blocks, blockIndex, cardRepository, outcome, restVars>>

\* A direct call of Chain.addBlock.
AddBlock ==
  /\ Len(blocks) < MaxBlocks
  /\ \E entityId \in EntityIds : \E action \in ActionsOn(entityId) :
       LET r == AddBlockTo(blocks, blockIndex, action, "Card", entityId,
                           CallData(action, entityId), "user-1", now)
       IN /\ blocks' = r.blocks
          /\ blockIndex' = r.blockIndex
  /\ UNCHANGED <<now, cardRepository, outcome, restVars>>

Next == Tick \/ ClockSetBack \/ AddBlock

Spec == Init /\ [][Next]_vars

\* Direct calls of CardRepository. create is called with the id of a card
\* that is not stored (ids are unique).
RepoCreateIn(ids, boards, columns, parents) ==
  \E id \in ids \ DOMAIN cardRepository.cards, boardId \in boards,
     columnId \in columns, parentId \in parents \cup {Undefined} :
    LET r == CardCreate(cardRepository, NewCard(id, boardId, columnId, Undefined, parentId))
    IN /\ cardRepository' = r.repo
       /\ outcome' = r.outcome
       /\ UNCHANGED <<chainVars, restVars>>

RepoCreate == RepoCreateIn(RepoCardIds, Boards, Columns, RepoParents)

RepoUpdate ==
  \E id \in RepoCardIds, updates \in CardUpdates :
    LET r == CardUpdate(cardRepository, id, updates)
    IN /\ cardRepository' = r.repo
       /\ outcome' = r.outcome
       /\ UNCHANGED <<chainVars, restVars>>

RepoDelete ==
  \E id \in RepoCardIds :
    LET r == CardDelete(cardRepository, id)
    IN /\ cardRepository' = r.repo
       /\ outcome' = r.outcome
       /\ UNCHANGED <<chainVars, restVars>>

RepoMove ==
  \E id \in RepoCardIds, toColumnId \in Columns, position \in 0..MaxPosition :
    LET r == CardMove(cardRepository, id, toColumnId, position)
    IN /\ cardRepository' = r.repo
       /\ outcome' = r.outcome
       /\ UNCHANGED <<chainVars, restVars>>

NextRepo == RepoCreate \/ RepoUpdate \/ RepoDelete \/ RepoMove

SpecRepo == Init /\ [][NextRepo]_vars

\* Card trees built by create alone, in any creation order.
TreeCreate == RepoCreateIn(TreeCardIds, {"b1"}, {"todo"}, TreeCardIds)

NextTree == TreeCreate

SpecTree == Init /\ [][NextTree]_vars

---------------------------------------------------------------------------
(* The audited log: every operation of the Chain API next to repository    *)
(* operations on a card that blocks of the chain refer to.                 *)

AuditCardIds == {"card-1"}

Read(kind, value) ==
  /\ returned' = [kind |-> kind, value |-> value]
  /\ UNCHANGED <<chainVars, cardRepository, kanbanVars, marketVars, outcome, auxVars>>

GetLatestBlockCall == Read("getLatestBlock", GetLatestBlock(blocks))

GetAllBlocksCall == Read("getAllBlocks", GetAllBlocks)

GetHistoryCall == \E entityId \in AuditCardIds : Read("getHistory", GetHistory(entityId))

GetBlocksInRangeCall ==
  \E endTime \in {0, MaxTime} :
    Read("getBlocksInRange", GetBlocksInRange(0, endTime))

ValidateChainCall == Read("validateChain", ValidateChain)

ReplayEventsCall ==
  \E entityId \in AuditCardIds \cup {Undefined}, upToTime \in {NoTime, 0} :
    Read("replayEvents", ReplayEvents(entityId, upToTime))

GetStatsCall == Read("getStats", GetStats)

ToJSONCall == Read("toJSON", ChainToJSON)

AuditCreate == RepoCreateIn(AuditCardIds, {"b1"}, {"todo"}, {})

AuditUpdate ==
  \E id \in AuditCardIds :
    LET r == CardUpdate(cardRepository, id, [NoUpdates EXCEPT !.columnId = "done"])
    IN /\ cardRepository' = r.repo
       /\ outcome' = r.outcome
       /\ UNCHANGED <<chainVars, restVars>>

AuditMove ==
  \E id \in AuditCardIds :
    LET r == CardMove(cardRepository, id, "todo", 0)
    IN /\ cardRepository' = r.repo
       /\ outcome' = r.outcome
       /\ UNCHANGED <<chainVars, restVars>>

AuditDelete ==
  \E id \in AuditCardIds :
    LET r == CardDelete(cardRepository, id)
    IN /\ cardRepository' = r.repo
       /\ outcome' = r.outcome
       /\ UNCHANGED <<chainVars, restVars>>

NextAudit ==
  \/ AddBlock
  \/ GetLatestBlockCall \/ GetAllBlocksCall \/ GetHistoryCall \/ GetBlocksInRangeCall
  \/ ValidateChainCall \/ ReplayEventsCall \/ GetStatsCall \/ ToJSONCall
  \/ AuditCreate \/ AuditUpdate \/ AuditMove \/ AuditDelete

SpecAudit == Init /\ [][NextAudit]_vars

---------------------------------------------------------------------------
(* Application: the kanban entry points. An entry point runs its repository *)
(* call at once and is suspended at the await; its continuation, the       *)
(* append to the chain, runs later, the suspended calls resuming in the    *)
(* order in which they were suspended.                                     *)

CountOf(log, action) == Cardinality({i \in 1..Len(log) : log[i].action = action})

LogEntry(command) == [action |-> command.action, entityId |-> command.entityId]

MayStart == Len(blocks) + Len(pending) < MaxBlocks /\ Len(pending) < MaxPending

\* A card command from its construction to the await in execute().
Start(command) ==
  LET r == Execute(cardRepository, command)
  IN /\ cardRepository' = r.repo
     /\ IF r.outcome.status = "threw"
          THEN /\ outcome' = r.outcome
               /\ UNCHANGED <<pending, opLog>>
          ELSE /\ outcome' = Suspended
               /\ pending' = Append(pending, command)
               /\ opLog' = Append(opLog, LogEntry(command))
     /\ UNCHANGED <<chainVars, boardRepository, returned, marketVars, auxVars>>

AppCreateBoard ==
  /\ MayStart
  /\ CountOf(opLog, "CREATE_BOARD") < MaxBoards
  /\ \E ownerId \in Users :
       LET board == NewBoard(NanoId("board", CountOf(opLog, "CREATE_BOARD") + 1),
                             "Basic Kanban", ownerId)
           r == BoardCreate(boardRepository, board)
       IN /\ boardRepository' = r.repo
          /\ pending' = Append(pending, CreateBoardCall(board))
          /\ opLog' = Append(opLog, LogEntry(CreateBoardCall(board)))
  /\ outcome' = Suspended
  /\ UNCHANGED <<chainVars, cardRepository, returned, marketVars, auxVars>>

AppCreateCard ==
  /\ MayStart
  /\ CountOf(opLog, "CREATE_CARD") < MaxCards
  /\ \E boardId \in AppBoardIds, columnId \in Columns,
        parentId \in {Undefined, NanoId("card", 1)} :
       Start(CreateCardCommand(NanoId("card", CountOf(opLog, "CREATE_CARD") + 1),
                               boardId, columnId, "u1", parentId))

AppMoveCard ==
  /\ MayStart
  /\ \E cardId \in AppCardIds \cup {UnknownCardId}, fromColumnId \in Columns,
        toColumnId \in Columns, position \in 0..MaxPosition :
       Start(MoveCardCommand(cardId, fromColumnId, toColumnId, position, "u1"))

AppUpdateCard ==
  /\ MayStart
  /\ \E cardId \in AppCardIds \cup {UnknownCardId}, updates \in AppUpdates :
       Start(UpdateCardCommand(cardId, updates, "u1"))

AppAssignCard ==
  /\ MayStart
  /\ \E cardId \in AppCardIds \cup {UnknownCardId}, assigneeId \in Users :
       Start(AssignCardCommand(cardId, assigneeId, "u1"))

\* The continuation of the oldest suspended entry point: addToChain.
AppResume ==
  /\ pending # <<>>
  /\ LET r == AddToChain(blocks, blockIndex, Head(pending), now)
     IN /\ blocks' = r.blocks
        /\ blockIndex' = r.blockIndex
  /\ pending' = Tail(pending)
  /\ outcome' = Returned
  /\ UNCHANGED <<now, cardRepository, boardRepository, opLog, returned, marketVars, auxVars>>

NextApp ==
  \/ AppCreateBoard \/ AppCreateCard \/ AppMoveCard \/ AppUpdateCard
  \/ AppAssignCard \/ AppResume

SpecApp == Init /\ [][NextApp]_vars

---------------------------------------------------------------------------
(* Properties of the chain *)

Range(seq) == {seq[i] : i \in 1..Len(seq)}

IsPrefix(p, q) == Len(p) <= Len(q) /\ \A i \in 1..Len(p) : p[i] = q[i]

TimestampsNonDecreasing ==
  \A i \in 2..Len(blocks) : blocks[i - 1].timestamp <= blocks[i].timestamp

QueriedIds == EntityIds \cup {"card-never"}

\* C1. Chain linking: every block after the genesis block stores, as its
\* previousHash, the hash stored in the block right before it.
C1_ChainLinking ==
  \A i \in 2..Len(blocks) : blocks[i].previousHash = blocks[i - 1].hash

C1_Witness ==
  /\ Len(blocks) = MaxBlocks
  /\ blocks[2].timestamp # blocks[3].timestamp
  /\ blocks[3].previousHash = blocks[2].hash

\* The edits of one field of one stored block, no hash recomputed.
TamperFields ==
  {"blockNumber", "timestamp", "action", "entityType", "entityId", "data",
   "actorId", "previousHash"}

TamperValues(field) ==
  CASE field = "blockNumber" -> 0..MaxBlocks
    [] field = "timestamp" -> (0..MaxTime) \cup {InvalidDate}
    [] field = "action" -> Actions \cup {"DELETE_CARD"}
    [] field = "entityType" -> {"Board", "Card"}
    [] field = "entityId" -> EntityIds
    [] field = "data" ->
         {CallData(a, e) : a \in Actions, e \in EntityIds}
           \cup {[CallData("CREATE_CARD", e) EXCEPT !.parentId = Absent] : e \in EntityIds}
    [] field = "actorId" -> {"user-1", "system"}
    [] field = "previousHash" -> {ZeroHash} \cup {blocks[i].hash : i \in 1..Len(blocks)}

Tamper(bs, k, field, value) == [bs EXCEPT ![k + 1][field] = value]

\* C2. Tamper detection: on a chain that validates, changing one field other
\* than hash of the block at index k (0 < k < n), no hash recomputed, makes
\* validateChain return valid = false with brokenAtBlock = k.
C2_TamperReportedAtK ==
  ValidateChain.valid =>
    \A k \in 1..(Len(blocks) - 1) : \A field \in TamperFields :
      \A value \in TamperValues(field) :
        value # blocks[k + 1][field] =>
          LET res == ValidateChainOf(Tamper(blocks, k, field, value))
          IN ~res.threw /\ ~res.valid /\ res.brokenAtBlock = k

\* What the code does guarantee for such an edit: unless the hashing throws
\* or the edit is invisible to JSON.stringify, the chain no longer validates,
\* and the reported number is the block's own (possibly edited) blockNumber.
TamperNeverValidates ==
  ValidateChain.valid =>
    \A k \in 1..(Len(blocks) - 1) : \A field \in TamperFields :
      \A value \in TamperValues(field) :
        /\ value # blocks[k + 1][field]
        /\ ~(field = "timestamp" /\ value = InvalidDate)
        /\ ~(field = "data" /\ JsonStringify(value) = JsonStringify(blocks[k + 1].data))
        => LET res == ValidateChainOf(Tamper(blocks, k, field, value))
           IN /\ ~res.threw /\ ~res.valid
              /\ res.brokenAtBlock = (IF field = "blockNumber" THEN value ELSE k)

\* C3. History completeness and order: getHistory(s) is exactly the
\* subsequence of the blocks appended by addBlock with entityId = s, in append
\* order; it is empty for an id never appended.
C3_HistoryComplete ==
  \A s \in QueriedIds :
    GetHistory(s) = SelectSeq(Tail(blocks), LAMBDA b : b.entityId = s)

C3_Witness ==
  /\ Len(blocks) = 4
  /\ blocks[2].entityId = "card-1"
  /\ blocks[3].entityId = "genesis"
  /\ blocks[4].entityId = "card-1"
  /\ Len(GetHistory("card-1")) = 2

\* C8. Self-validity: every block made by addBlock satisfies isValid(), and a
\* chain changed only through addBlock validates after any number of appends.
C8_SelfValid ==
  /\ \A i \in 1..Len(blocks) : ~HashThrows(blocks[i]) /\ IsValid(blocks[i])
  /\ ValidateChain = ValidResult

C8_Witness ==
  /\ Len(blocks) = MaxBlocks
  /\ IsValid(blocks[MaxBlocks])
  /\ ValidateChain.valid

\* C9. Replay filter: for every entityId s and instant T, every block of
\* replayEvents(s, T) has timestamp <= T, no block of getHistory(s) with
\* timestamp <= T is missing, and, the block timestamps being non-decreasing
\* in append order, the result is a prefix of getHistory(s).
ReplayFilterFor(s, T) ==
  LET result == ReplayEvents(s, T)
      history == GetHistory(s)
  IN /\ \A i \in 1..Len(result) : result[i].timestamp <= T
     /\ \A i \in 1..Len(history) :
          history[i].timestamp <= T => history[i] \in Range(result)
     /\ TimestampsNonDecreasing => IsPrefix(result, history)

C9_ReplayFilter ==
  \A s \in QueriedIds : \A T \in 0..MaxTime : ReplayFilterFor(s, T)

\* The same statement for the entity ids that are not the empty string.
ReplayFilterNonEmptyId ==
  \A s \in QueriedIds \ {""} : \A T \in 0..MaxTime : ReplayFilterFor(s, T)

C9_Witness ==
  /\ Len(GetHistory("")) = 1
  /\ ReplayEvents("", now) # GetHistory("")

---------------------------------------------------------------------------
(* Properties of CardRepository *)

LiveCardsWhere(R, field, value) ==
  {R.cards[id] : id \in {x \in DOMAIN R.cards : R.cards[x][field] = value}}

NoDuplicates(seq) == \A i, j \in 1..Len(seq) : seq[i] = seq[j] => i = j

\* C4. Index consistency: after every create, update and delete, each index
\* query returns exactly the live cards whose current field equals the
\* queried value: findByBoard for boardId, findByColumn for columnId,
\* findByAssignee for assigneeId, findChildren for parentId.
C4_IndexConsistency ==
  LET R == cardRepository
  IN /\ \A b \in Boards : FindByBoard(R, b) = LiveCardsWhere(R, "boardId", b)
     /\ \A c \in Columns :
          /\ Range(FindByColumn(R, c)) = LiveCardsWhere(R, "columnId", c)
          /\ NoDuplicates(FindByColumn(R, c))
     /\ \A u \in Users : FindByAssignee(R, u) = LiveCardsWhere(R, "assigneeId", u)
     /\ \A p \in RepoCardIds :
          /\ Range(FindChildren(R, p)) = LiveCardsWhere(R, "parentId", p)
          /\ NoDuplicates(FindChildren(R, p))

\* A card has moved to another board and the old board still lists it.
C4_Witness ==
  \E id \in DOMAIN cardRepository.cards :
    /\ cardRepository.cards[id].boardId = "b2"
    /\ cardRepository.cards[id] \in FindByBoard(cardRepository, "b1")

\* The part of C4 the code keeps: the column index.
ColumnIndexConsistent ==
  \A c \in Columns :
    /\ Range(FindByColumn(cardRepository, c)) = LiveCardsWhere(cardRepository, "columnId", c)
    /\ NoDuplicates(FindByColumn(cardRepository, c))

\* The cards that reach root by following parentId through stored cards.
RECURSIVE DescendantsUpTo(_, _, _)
DescendantsUpTo(R, root, n) ==
  IF n = 0 THEN {}
  ELSE LET below == DescendantsUpTo(R, root, n - 1)
       IN {id \in DOMAIN R.cards :
             R.cards[id].parentId = root \/ R.cards[id].parentId \in below}

Descendants(R, root) == DescendantsUpTo(R, root, Cardinality(DOMAIN R.cards))

IsForest(R) == \A id \in DOMAIN R.cards : id \notin Descendants(R, id)

\* C10. Descendant traversal: when the parentId edges form a tree, however
\* the cards were created, findAllDescendants(root) returns every card
\* transitively reachable from root exactly once, not root itself and no
\* card outside the subtree.
C10_DescendantTraversal ==
  IsForest(cardRepository) =>
    \A root \in TreeCardIds \cup {"c-unknown"} :
      LET res == FindAllDescendants(cardRepository, root)
          ids == Ids(res.descendants)
      IN /\ res.done
         /\ Range(ids) = Descendants(cardRepository, root)
         /\ NoDuplicates(ids)
         /\ root \notin Range(ids)
         /\ \A i \in 1..Len(ids) : res.descendants[i] = cardRepository.cards[ids[i]]

\* Scenario D, the grandchild created before its parent.
C10_Witness ==
  /\ IsForest(cardRepository)
  /\ DOMAIN cardRepository.cards = TreeCardIds
  /\ cardRepository.columnIndex["todo"] = <<"c4", "c2", "c3", "c1">>
  /\ cardRepository.cards["c1"].parentId = Undefined
  /\ cardRepository.cards["c2"].parentId = "c1"
  /\ cardRepository.cards["c3"].parentId = "c1"
  /\ cardRepository.cards["c4"].parentId = "c2"
  /\ Range(Ids(FindAllDescendants(cardRepository, "c1").descendants)) = {"c2", "c3", "c4"}

---------------------------------------------------------------------------
(* The marketplace: the project commands and PaymentService, one operation *)
(* at a time, next to card commands, which name cards that do not exist.   *)

World ==
  [projectRepository |-> projectRepository, proposalRepository |-> proposalRepository,
   paymentRepository |-> paymentRepository, blocks |-> blocks, blockIndex |-> blockIndex]

\* The state after an operation that ended as r.
Run(r) ==
  /\ projectRepository' = r.world.projectRepository
  /\ proposalRepository' = r.world.proposalRepository
  /\ paymentRepository' = r.world.paymentRepository
  /\ blocks' = r.world.blocks
  /\ blockIndex' = r.world.blockIndex
  /\ outcome' = r.outcome
  /\ UNCHANGED <<now, cardRepository, kanbanVars, returned, auxVars>>

MarketOpen == Len(blocks) < MaxMarketBlocks

\* The world a service works on: the repositories of the Application and
\* the Chain the service was constructed with.
ServiceWorld ==
  IF serviceChain = SameChain THEN World
  ELSE [World EXCEPT !.blocks = serviceChain.blocks,
                     !.blockIndex = serviceChain.blockIndex]

\* The state after a service operation that ended as r.
RunService(r) ==
  /\ projectRepository' = r.world.projectRepository
  /\ proposalRepository' = r.world.proposalRepository
  /\ paymentRepository' = r.world.paymentRepository
  /\ IF serviceChain = SameChain
       THEN /\ blocks' = r.world.blocks
            /\ blockIndex' = r.world.blockIndex
            /\ UNCHANGED serviceChain
       ELSE /\ serviceChain' = [blocks |-> r.world.blocks,
                                blockIndex |-> r.world.blockIndex]
            /\ UNCHANGED <<blocks, blockIndex>>
  /\ outcome' = r.outcome
  /\ UNCHANGED <<now, cardRepository, kanbanVars, returned, edits, inflight>>

ServiceOpen == Len(ServiceWorld.blocks) < MaxMarketBlocks

CreateProject ==
  /\ MarketOpen
  /\ Cardinality(DOMAIN projectRepository.projects) < MaxProjects
  /\ \E clientId \in Clients, amount \in Amounts :
       Run(CreateProjectExecute(World,
             NanoId("project", Cardinality(DOMAIN projectRepository.projects) + 1),
             clientId, amount, clientId, now))

PublishProject ==
  /\ MarketOpen
  /\ \E projectId \in ProjectIds, actorId \in Clients :
       Run(PublishProjectExecute(World, projectId, actorId, now))

SubmitProposal ==
  /\ MarketOpen
  /\ Cardinality(DOMAIN proposalRepository.proposals) < MaxProposals
  /\ \E projectId \in ProjectIds, freelancerId \in Freelancers, amount \in Amounts,
        milestones \in MilestonePlans :
       Run(SubmitProposalExecute(World,
             NanoId("proposal", Cardinality(DOMAIN proposalRepository.proposals) + 1),
             projectId, freelancerId, amount, milestones, now))

AcceptProposal ==
  /\ MarketOpen
  /\ \E proposalId \in ProposalIds, actorId \in Clients :
       Run(AcceptProposalExecute(World, proposalId, actorId, now))

SubmitMilestone ==
  /\ MarketOpen
  /\ \E projectId \in ProjectIds, milestoneId \in MilestoneIds, actorId \in {"freelancer-1"} :
       Run(SubmitMilestoneExecute(World, projectId, milestoneId, actorId, now))

ApproveMilestone ==
  /\ MarketOpen
  /\ \E projectId \in ProjectIds, milestoneId \in MilestoneIds, actorId \in Clients :
       Run(ApproveMilestoneExecute(World, projectId, milestoneId, actorId, now))

\* A direct call projectRepository.update(projectId, { status: 'open' }).
ReopenProject ==
  /\ MarketOpen
  /\ \E projectId \in ProjectIds :
       LET r == ProjectUpdate(projectRepository, projectId, [status |-> "open"])
       IN /\ projectRepository' = r.repo
          /\ outcome' = IF r.found THEN Returned ELSE ReturnedNull
  /\ UNCHANGED <<chainVars, cardRepository, kanbanVars, returned, proposalRepository,
                 paymentRepository, auxVars>>

CreatePaymentCall ==
  /\ ServiceOpen
  /\ Cardinality(DOMAIN paymentRepository.payments) < MaxPayments
  /\ \E projectId \in {NanoId("project", 1)}, milestoneId \in {Undefined, NanoId("milestone", 1)},
        clientId \in Clients, freelancerId \in {"freelancer-1"}, amount \in Amounts,
        gateway \in Gateways :
       RunService(CreatePayment(ServiceWorld,
             NanoId("payment", Cardinality(DOMAIN paymentRepository.payments) + 1),
             projectId, milestoneId, clientId, freelancerId, amount, gateway, clientId, now))

EscrowPaymentCall ==
  /\ ServiceOpen
  /\ \E paymentId \in PaymentIds, actorId \in Clients :
       RunService(EscrowPayment(ServiceWorld, paymentId, actorId, now))

ReleasePaymentCall ==
  /\ ServiceOpen
  /\ \E paymentId \in PaymentIds, actorId \in Clients :
       RunService(ReleasePayment(ServiceWorld, paymentId, actorId, now))

RefundPaymentCall ==
  /\ ServiceOpen
  /\ \E paymentId \in PaymentIds, actorId \in Clients :
       RunService(RefundPayment(ServiceWorld, paymentId, actorId, now))

DisputePaymentCall ==
  /\ ServiceOpen
  /\ \E paymentId \in PaymentIds, actorId \in Clients :
       RunService(DisputePayment(ServiceWorld, paymentId, "late", actorId, now))

NextMarket ==
  \/ CreateProject \/ PublishProject \/ SubmitProposal \/ AcceptProposal
  \/ SubmitMilestone \/ ApproveMilestone \/ ReopenProject
  \/ CreatePaymentCall \/ EscrowPaymentCall \/ ReleasePaymentCall
  \/ RefundPaymentCall \/ DisputePaymentCall
  \/ AppMoveCard \/ AppUpdateCard \/ AppAssignCard

SpecMarket == Init /\ [][NextMarket]_vars

---------------------------------------------------------------------------
(* Application properties *)

RECURSIVE SelectOf(_, _)
SelectOf(log, entityId) ==
  IF log = <<>> THEN <<>>
  ELSE IF Head(log).entityId = entityId
         THEN <<Head(log)>> \o SelectOf(Tail(log), entityId)
         ELSE SelectOf(Tail(log), entityId)

LogOf(bs) == [i \in 1..Len(bs) |-> [action |-> bs[i].action, entityId |-> bs[i].entityId]]

\* The operations that have run to completion: all but the suspended ones.
Completed == SubSeq(opLog, 1, Len(opLog) - Len(pending))

---------------------------------------------------------------------------
(* The append-only log *)

\* C7: no operation of the Chain API (addBlock, getLatestBlock,
\* getAllBlocks, getHistory, getBlocksInRange, validateChain, replayEvents,
\* getStats, toJSON) and no repository operation, the delete of the entity
\* a block refers to included, removes, reorders or changes a block of the
\* chain: the blocks before a step are a prefix of the blocks after it.
C7_AppendOnly == [][IsPrefix(blocks, blocks')]_vars

\* The card that two blocks refer to has been deleted and the chain has
\* been read since.
C7_Witness ==
  /\ Len(GetHistory("card-1")) = 2
  /\ "card-1" \notin DOMAIN cardRepository.cards
  /\ outcome = Returned
  /\ returned.kind = "replayEvents"

---------------------------------------------------------------------------
(* Failure atomicity *)

\* C6: whenever a command or a PaymentService operation rejects (unknown
\* project, proposal, milestone or payment id, publish of a project that is
\* not a draft, proposal to a project that is not open or by a freelancer
\* who has one, submit of a milestone not in progress, approve of a
\* milestone not submitted, escrow of a payment not pending, release or
\* refund of a payment not escrowed), no repository entry, no index, no
\* milestone field and no block has been changed or added.
C6_FailureAtomicity ==
  [][outcome'.status = "threw" =>
       UNCHANGED <<blocks, blockIndex, cardRepository, boardRepository,
                   projectRepository, proposalRepository, paymentRepository>>]_vars

\* An approval has just been rejected on a project whose first milestone
\* is in progress and for which a payment is pending.
C6_Witness ==
  /\ outcome = Threw("Milestone must be submitted to approve")
  /\ \E p \in DOMAIN projectRepository.projects :
       /\ projectRepository.projects[p].status = "assigned"
       /\ projectRepository.projects[p].milestones[1].status = "in_progress"
  /\ \E y \in DOMAIN paymentRepository.payments :
       paymentRepository.payments[y].status = "pending"

---------------------------------------------------------------------------
(* Block numbering *)

BlocksNumbered ==
  /\ \A i \in 1..Len(blocks) : blocks[i].blockNumber = i - 1
  /\ blocks[1].previousHash = ZeroHash
  /\ blocks[1].actorId = "system"
  /\ blocks[1].entityId = "genesis"
  /\ GetLatestBlock(blocks).blockNumber = Len(blocks) - 1
  /\ Len(blocks) = 1 => GetLatestBlock(blocks) = blocks[1]

\* C11. Sequence numbering: the block at index i has blockNumber i; block 0
\* is the genesis block with previousHash "0", actorId "system" and entityId
\* "genesis"; each addBlock makes the chain longer by exactly one block; and
\* getLatestBlock() is the block numbered length - 1, the genesis block when
\* nothing was appended.
C11_SequenceNumbering ==
  /\ []BlocksNumbered
  /\ [][AddBlock => Len(blocks') = Len(blocks) + 1]_vars

C11_Witness ==
  /\ Len(blocks) = MaxBlocks
  /\ GetLatestBlock(blocks).blockNumber = MaxBlocks - 1
  /\ blocks[2].blockNumber = 1
  /\ blocks[2].entityId = "genesis"

---------------------------------------------------------------------------
(* The chain next to code that assigns to the public fields of the blocks  *)
(* it got from getAllBlocks() or getLatestBlock().                         *)

EditFields == {"blockNumber", "timestamp", "data", "previousHash", "hash"}

\* The values assigned to a field of block b; for hash also the value
\* b.calculateHash() returns now.
EditValues(field, b) ==
  CASE field = "blockNumber" -> {0, MaxBlocks}
    [] field = "timestamp" -> {MaxTime, InvalidDate}
    [] field = "data" -> {CallData("MOVE_CARD", "card-x"), [b.data EXCEPT !.parentId = Absent]}
    [] field = "previousHash" -> {ZeroHash}
    [] field = "hash" -> {ZeroHash} \cup (IF HashThrows(b) THEN {} ELSE {CalculateHash(b)})

\* chain.getAllBlocks()[k].field = value
EditBlock ==
  /\ edits < MaxEdits
  /\ \E k \in 0..(Len(blocks) - 1), field \in EditFields :
       \E value \in EditValues(field, blocks[k + 1]) :
         /\ value # blocks[k + 1][field]
         /\ blocks' = Tamper(blocks, k, field, value)
  /\ edits' = edits + 1
  /\ UNCHANGED <<now, blockIndex, cardRepository, outcome, kanbanVars, returned,
                 marketVars, serviceChain, inflight>>

NextTamper == AddBlock \/ EditBlock \/ ValidateChainCall

SpecTamper == Init /\ [][NextTamper]_vars

HashMismatch == "Block hash mismatch - data may be corrupted"
ChainBroken == "Chain broken - previousHash does not match previous block"

\* The indices (0-based, from 1) at which a check of validateChain fails.
FailingIndices(bs) ==
  {i \in 1..(Len(bs) - 1) : ~IsValid(bs[i + 1]) \/ bs[i + 1].previousHash # bs[i].hash}

Min(S) == CHOOSE x \in S : \A y \in S : x <= y

\* The result the first failing index calls for, its position being
\* numberOf(index).
FirstFailure(bs, numberOf(_)) ==
  IF FailingIndices(bs) = {} THEN ValidResult
  ELSE LET i == Min(FailingIndices(bs))
       IN [valid |-> FALSE, brokenAtBlock |-> numberOf(i),
           error |-> IF ~IsValid(bs[i + 1]) THEN HashMismatch ELSE ChainBroken,
           threw |-> FALSE]

\* C12. First failure reported: validateChain examines the indices 1..n-1 in
\* ascending order and returns the smallest index at which the self-hash
\* check or the link check fails, with 'Block hash mismatch ...' when the
\* self-hash check fails and 'Chain broken ...' when only the link check
\* fails; it returns valid = true only if every block from index 1 on passes
\* both checks.
C12_FirstFailureReported ==
  ValidateChain = FirstFailure(blocks, LAMBDA i : i)

\* The reported number differs from the index of the first failing block.
C12_Witness ==
  /\ FailingIndices(blocks) # {}
  /\ ~ValidateChain.threw
  /\ ValidateChain.error = HashMismatch
  /\ ValidateChain.brokenAtBlock # Min(FailingIndices(blocks))

\* What the code returns: the blockNumber field of the first failing block,
\* provided no block examined up to there holds an invalid Date.
FirstFailureByBlockNumber ==
  (\A i \in 1..Len(blocks) : ~HashThrows(blocks[i])) =>
    ValidateChain = FirstFailure(blocks, LAMBDA i : blocks[i + 1].blockNumber)

\* C13. Validation is a read-only diagnostic: validateChain() changes neither
\* the block list nor the entity index; on a chain reported broken at b,
\* addBlock still appends a block numbered length whose previousHash is the
\* hash of the last block, and validateChain afterwards reports valid = false
\* with the same brokenAtBlock.
C13_ReadOnlyDiagnostic ==
  /\ [][ValidateChainCall => UNCHANGED <<blocks, blockIndex>>]_vars
  /\ [][(AddBlock /\ ~ValidateChain.valid /\ ~ValidateChain.threw) =>
          /\ Len(blocks') = Len(blocks) + 1
          /\ SubSeq(blocks', 1, Len(blocks)) = blocks
          /\ GetLatestBlock(blocks').blockNumber = Len(blocks)
          /\ GetLatestBlock(blocks').previousHash = GetLatestBlock(blocks).hash
          /\ ~ValidateChain'.valid
          /\ ValidateChain'.brokenAtBlock = ValidateChain.brokenAtBlock]_vars

\* A block was appended behind a block whose hash had been overwritten.
C13_Witness ==
  /\ Len(blocks) = MaxBlocks
  /\ blocks[3].hash = ZeroHash
  /\ blocks[4].previousHash = ZeroHash
  /\ IsValid(blocks[4])
  /\ ValidateChain.brokenAtBlock = 2
  /\ returned = [kind |-> "validateChain", value |-> ValidateChain]

---------------------------------------------------------------------------
(* The column buckets of CardRepository *)

Occurrences(seq, x) == Cardinality({i \in 1..Len(seq) : seq[i] = x})

\* The columns whose bucket lists the card id.
BucketsOf(R, id) == {c \in DOMAIN R.columnIndex : Includes(R.columnIndex[c], id)}

---------------------------------------------------------------------------
(* The history of a card and its stored state *)

\* The card state before its first event.
NoCardState == [columnId |-> Undefined, assigneeId |-> Undefined]

\* The effect of one event (a block, or a command about to be logged) on
\* the columnId and the assigneeId of its card.
ApplyEvent(st, event) ==
  CASE event.action = "CREATE_CARD" -> [st EXCEPT !.columnId = event.data.columnId]
    [] event.action = "MOVE_CARD" -> [st EXCEPT !.columnId = event.data.toColumnId]
    [] event.action = "UPDATE_CARD" -> Merge(st, event.data.updates)
    [] event.action = "ASSIGN_CARD" -> [st EXCEPT !.assigneeId = event.data.assigneeId]
    [] OTHER -> st

RECURSIVE FoldEvents(_, _)
FoldEvents(st, events) ==
  IF events = <<>> THEN st
  ELSE FoldEvents(ApplyEvent(st, Head(events)), Tail(events))

PendingOn(id) == SelectSeq(pending, LAMBDA command : command.entityId = id)

AgreesWithCard(st, id) ==
  /\ st.columnId = cardRepository.cards[id].columnId
  /\ st.assigneeId = cardRepository.cards[id].assigneeId

\* C15. History and current state agree: for every card touched only
\* through the Application card operations, once each of its operations has
\* logged its block, folding the blocks of getHistory(cardId) in order yields
\* the columnId and the assigneeId that findById(cardId) holds.
C15_HistoryAgreesWithState ==
  \A id \in DOMAIN cardRepository.cards :
    PendingOn(id) = <<>> => AgreesWithCard(FoldEvents(NoCardState, GetHistory(id)), id)

\* In every state, also between the repository call of an operation and its
\* block: the history followed by the operations still to be logged agrees.
HistoryThenPendingAgrees ==
  \A id \in DOMAIN cardRepository.cards :
    AgreesWithCard(FoldEvents(FoldEvents(NoCardState, GetHistory(id)), PendingOn(id)), id)

\* A card was created in todo, moved to done and assigned, all three logged.
C15_Witness ==
  /\ pending = <<>>
  /\ NanoId("card", 1) \in DOMAIN cardRepository.cards
  /\ [i \in 1..Len(GetHistory(NanoId("card", 1))) |-> GetHistory(NanoId("card", 1))[i].action]
       = <<"CREATE_CARD", "MOVE_CARD", "ASSIGN_CARD">>
  /\ blocks[2].data.columnId = "todo"
  /\ cardRepository.cards[NanoId("card", 1)].columnId = "done"
  /\ cardRepository.cards[NanoId("card", 1)].assigneeId = "u1"

---------------------------------------------------------------------------
(* The five repositories called directly, each with one id, which is not   *)
(* stored before its create and after its delete.                          *)

StoreProject == NewProject(NanoId("project", 1), "client-1", 100000)

StoreProposal ==
  NewProposal(NanoId("proposal", 1), NanoId("project", 1), "freelancer-1", 100000,
              <<[title |-> "Delivery", amount |-> 100000]>>, 0)

StorePayment ==
  [id |-> NanoId("payment", 1), projectId |-> NanoId("project", 1),
   milestoneId |-> NanoId("milestone", 1), clientId |-> "client-1",
   freelancerId |-> "freelancer-1", amount |-> 100000, status |-> "pending",
   gateway |-> "stripe", platformFee |-> PlatformFee(100000),
   gatewayFee |-> CalculateGatewayFee(100000, "stripe"),
   gatewayTransactionId |-> Undefined]

StoreBoard == NewBoard(NanoId("board", 1), "Basic Kanban", "u1")

\* A call of the BoardRepository that ended as r.
BoardCall(r) ==
  /\ boardRepository' = r.repo
  /\ outcome' = r.outcome
  /\ UNCHANGED <<chainVars, cardRepository, pending, opLog, returned, marketVars, auxVars>>

\* A call of a marketplace repository: the three repositories after it.
MarketCall(P, Q, Y, result) ==
  /\ projectRepository' = P
  /\ proposalRepository' = Q
  /\ paymentRepository' = Y
  /\ outcome' = result
  /\ UNCHANGED <<chainVars, cardRepository, kanbanVars, returned, auxVars>>

UpdateResult(r) == IF r.found THEN Returned ELSE ReturnedNull

DeleteResult(r) == IF r.deleted THEN Returned ELSE ReturnedFalse

BoardCreateCall ==
  /\ StoreBoard.id \notin DOMAIN boardRepository.boards
  /\ BoardCall(BoardCreate(boardRepository, StoreBoard))

BoardUpdateCall == BoardCall(BoardUpdate(boardRepository, StoreBoard.id, [name |-> "Renamed"]))

BoardDeleteCall == BoardCall(BoardDelete(boardRepository, StoreBoard.id))

ProjectCreateCall ==
  /\ StoreProject.id \notin DOMAIN projectRepository.projects
  /\ MarketCall(ProjectCreate(projectRepository, StoreProject), proposalRepository,
                paymentRepository, Returned)

ProjectUpdateCall ==
  \E updates \in {[status |-> "open"], [assignedFreelancerId |-> "freelancer-1"]} :
    LET r == ProjectUpdate(projectRepository, StoreProject.id, updates)
    IN MarketCall(r.repo, proposalRepository, paymentRepository, UpdateResult(r))

ProjectDeleteCall ==
  LET r == ProjectDelete(projectRepository, StoreProject.id)
  IN MarketCall(r.repo, proposalRepository, paymentRepository, DeleteResult(r))

ProposalCreateCall ==
  /\ StoreProposal.id \notin DOMAIN proposalRepository.proposals
  /\ MarketCall(projectRepository, ProposalCreate(proposalRepository, StoreProposal),
                paymentRepository, Returned)

ProposalUpdateCall ==
  LET r == ProposalUpdate(proposalRepository, StoreProposal.id, [status |-> "accepted"])
  IN MarketCall(projectRepository, r.repo, paymentRepository, UpdateResult(r))

ProposalDeleteCall ==
  LET r == ProposalDelete(proposalRepository, StoreProposal.id)
  IN MarketCall(projectRepository, r.repo, paymentRepository, DeleteResult(r))

PaymentCreateCall ==
  /\ StorePayment.id \notin DOMAIN paymentRepository.payments
  /\ MarketCall(projectRepository, proposalRepository,
                PaymentCreate(paymentRepository, StorePayment), Returned)

PaymentUpdateCall ==
  LET r == PaymentUpdate(paymentRepository, StorePayment.id, [status |-> "escrowed"])
  IN MarketCall(projectRepository, proposalRepository, r.repo, UpdateResult(r))

PaymentDeleteCall ==
  LET r == PaymentDelete(paymentRepository, StorePayment.id)
  IN MarketCall(projectRepository, proposalRepository, r.repo, DeleteResult(r))

NextStore ==
  \/ AuditCreate \/ AuditUpdate \/ AuditMove \/ AuditDelete
  \/ BoardCreateCall \/ BoardUpdateCall \/ BoardDeleteCall
  \/ ProjectCreateCall \/ ProjectUpdateCall \/ ProjectDeleteCall
  \/ ProposalCreateCall \/ ProposalUpdateCall \/ ProposalDeleteCall
  \/ PaymentCreateCall \/ PaymentUpdateCall \/ PaymentDeleteCall

SpecStore == Init /\ [][NextStore]_vars

Misses == {"threw", "returned false", "returned null"}

\* What each repository does with a call that names an id it does not store.
MissReported ==
  /\ \A id \in (AuditCardIds \cup {UnknownCardId}) \ DOMAIN cardRepository.cards :
       /\ \A updates \in CardUpdates :
            LET r == CardUpdate(cardRepository, id, updates)
            IN r.repo = cardRepository /\ r.outcome.status = "threw"
       /\ \A toColumnId \in Columns, position \in 0..MaxPosition :
            LET r == CardMove(cardRepository, id, toColumnId, position)
            IN r.repo = cardRepository /\ r.outcome.status = "threw"
       /\ CardDelete(cardRepository, id) =
            [repo |-> cardRepository, outcome |-> ReturnedFalse]
  /\ \A id \in AppBoardIds \ DOMAIN boardRepository.boards :
       /\ LET r == BoardUpdate(boardRepository, id, [name |-> "Renamed"])
          IN r.repo = boardRepository /\ r.outcome.status = "threw"
       /\ BoardDelete(boardRepository, id) =
            [repo |-> boardRepository, outcome |-> ReturnedFalse]
  /\ \A id \in ProjectIds \ DOMAIN projectRepository.projects :
       /\ \A updates \in {[status |-> "open"], [assignedFreelancerId |-> "freelancer-1"]} :
            ProjectUpdate(projectRepository, id, updates) =
              [repo |-> projectRepository, found |-> FALSE]
       /\ ProjectDelete(projectRepository, id) =
            [repo |-> projectRepository, deleted |-> FALSE]
  /\ \A id \in ProposalIds \ DOMAIN proposalRepository.proposals :
       /\ ProposalUpdate(proposalRepository, id, [status |-> "accepted"]) =
            [repo |-> proposalRepository, found |-> FALSE]
       /\ ProposalDelete(proposalRepository, id) =
            [repo |-> proposalRepository, deleted |-> FALSE]
  /\ \A id \in PaymentIds \ DOMAIN paymentRepository.payments :
       /\ PaymentUpdate(paymentRepository, id, [status |-> "escrowed"]) =
            [repo |-> paymentRepository, found |-> FALSE]
       /\ PaymentDelete(paymentRepository, id) =
            [repo |-> paymentRepository, deleted |-> FALSE]

\* C16. Unknown id is reported and changes nothing: update, move or delete
\* with an id that is not stored leaves the primary map and every index as
\* they are and reports the miss: CardRepository.update, CardRepository.move
\* and BoardRepository.update throw, delete returns false, the update of
\* ProjectRepository, ProposalRepository and PaymentRepository returns null.
C16_UnknownIdReported ==
  /\ []MissReported
  /\ [][outcome'.status \in Misses =>
          UNCHANGED <<cardRepository, boardRepository, projectRepository,
                      proposalRepository, paymentRepository>>]_vars

\* A project is stored, deleted, and the update that follows returns null
\* while the other repositories hold their entity.
C16_Witness ==
  /\ outcome = ReturnedNull
  /\ DOMAIN projectRepository.projects = {}
  /\ MapGet(projectRepository.clientIndex, "client-1", {"none"}) = {}
  /\ DOMAIN cardRepository.cards = AuditCardIds
  /\ DOMAIN paymentRepository.payments = {StorePayment.id}

---------------------------------------------------------------------------
(* Application.reset() next to createBoard and PaymentService              *)

\* reset(), called while no entry point is suspended at its await: the
\* Application gets a new Chain, CardRepository and BoardRepository; the
\* services keep the Chain they were constructed with.
AppReset ==
  /\ pending = <<>>
  /\ blocks' = <<GenesisBlock(now)>>
  /\ blockIndex' = EmptyMap
  /\ cardRepository' = EmptyCardRepository
  /\ boardRepository' = EmptyBoardRepository
  /\ serviceChain' = IF serviceChain = SameChain
                       THEN [blocks |-> blocks, blockIndex |-> blockIndex]
                       ELSE serviceChain
  /\ outcome' = Returned
  /\ UNCHANGED <<now, pending, opLog, returned, marketVars, edits, inflight>>

NextReset ==
  \/ AppCreateBoard \/ AppResume \/ AppReset \/ Tick
  \/ CreatePaymentCall \/ EscrowPaymentCall \/ ReleasePaymentCall

SpecReset == Init /\ [][NextReset]_vars

\* C17. Single chain instance: in every state of a running Application,
\* also after reset(), the components that record blocks (createBoard, the
\* commands, the services) append to the Chain instance that
\* Application.validateChain, getChainStats, getCardHistory and
\* replayToTimestamp read.
C17_SingleChainInstance == serviceChain = SameChain

\* After reset() PaymentService has recorded a payment on the Chain it was
\* constructed with; the Chain the Application reads holds a genesis block only.
C17_Witness ==
  /\ serviceChain # SameChain
  /\ GetLatestBlock(serviceChain.blocks).action = "CREATE_PAYMENT"
  /\ DOMAIN paymentRepository.payments # {}
  /\ Len(blocks) = 1
  /\ outcome = Returned

---------------------------------------------------------------------------
(* Export and import of the chain *)

FromJSONCall == Read("fromJSON", ChainFromJSON(ChainToJSON, now))

NextJSON == Tick \/ AddBlock \/ ToJSONCall \/ FromJSONCall

SpecJSON == Init /\ [][NextJSON]_vars

\* C18. Serialization round trip: for every chain c built by addBlock,
\* Chain.fromJSON(c.toJSON()) holds the same blocks in the same order with
\* every field equal (the timestamp as an instant), each of its blocks
\* satisfies isValid(), and validateChain() on it returns what it returns on c.
C18_RoundTrip ==
  LET copy == ChainFromJSON(ChainToJSON, now)
  IN /\ copy.blocks = blocks
     /\ \A i \in 1..Len(copy.blocks) :
          ~HashThrows(copy.blocks[i]) /\ IsValid(copy.blocks[i])
     /\ ValidateChainOf(copy.blocks) = ValidateChain

\* A chain of MaxBlocks blocks was exported and imported at a later time.
C18_Witness ==
  /\ Len(blocks) = MaxBlocks
  /\ returned.kind = "fromJSON"
  /\ returned.value.blocks = blocks
  /\ now > blocks[MaxBlocks].timestamp
  /\ blocks[MaxBlocks].timestamp > blocks[1].timestamp

\* The imported chain, unlike the exported one, indexes the genesis block.
ImportIndexesGenesis ==
  LET copy == ChainFromJSON(ChainToJSON, now)
  IN /\ GetHistoryOf(copy.blocks, copy.blockIndex, "genesis")[1] = blocks[1]
     /\ \A s \in QueriedIds \ {"genesis"} :
          GetHistoryOf(copy.blocks, copy.blockIndex, s) = GetHistory(s)

---------------------------------------------------------------------------
(* The parent edges of CardRepository under create, update, move, delete   *)

ForestCardIds == {"c1", "c2", "c3"}

\* create with any parentId other than the id of the card itself; the
\* parent need not be stored yet.
ForestCreate ==
  \E id \in ForestCardIds \ DOMAIN cardRepository.cards :
    \E parentId \in (ForestCardIds \ {id}) \cup {Undefined} :
      LET r == CardCreate(cardRepository, NewCard(id, "b1", "todo", Undefined, parentId))
      IN /\ cardRepository' = r.repo
         /\ outcome' = r.outcome
         /\ UNCHANGED <<chainVars, restVars>>

\* update(id, { parentId })
ForestUpdate ==
  \E id \in ForestCardIds :
    \E parentId \in (ForestCardIds \ {id}) \cup {Undefined} :
      LET r == CardUpdate(cardRepository, id, [NoUpdates EXCEPT !.parentId = parentId])
      IN /\ cardRepository' = r.repo
         /\ outcome' = r.outcome
         /\ UNCHANGED <<chainVars, restVars>>

ForestMove ==
  \E id \in ForestCardIds :
    LET r == CardMove(cardRepository, id, "todo", 0)
    IN /\ cardRepository' = r.repo
       /\ outcome' = r.outcome
       /\ UNCHANGED <<chainVars, restVars>>

ForestDelete ==
  \E id \in ForestCardIds :
    LET r == CardDelete(cardRepository, id)
    IN /\ cardRepository' = r.repo
       /\ outcome' = r.outcome
       /\ UNCHANGED <<chainVars, restVars>>

NextForest == ForestCreate \/ ForestUpdate \/ ForestMove \/ ForestDelete

SpecForest == Init /\ [][NextForest]_vars

\* The cards reached from root through the parentId -> children index.
RECURSIVE IndexDescendantsUpTo(_, _, _)
IndexDescendantsUpTo(R, root, n) ==
  IF n = 0 THEN {}
  ELSE LET below == IndexDescendantsUpTo(R, root, n - 1)
       IN Range(Ids(FindChildren(R, root)))
            \cup UNION {Range(Ids(FindChildren(R, id))) : id \in below}

IndexDescendants(R, root) ==
  IndexDescendantsUpTo(R, root, Cardinality(DOMAIN R.cards))

\* C19. Parent edges only point downward: no sequence of create, update,
\* move and delete leads to a state in which a card is its own transitive
\* descendant in the parentId -> children index, neither by a self-loop nor
\* by a longer cycle.
C19_ParentEdgesAcyclic ==
  \A id \in DOMAIN cardRepository.cards :
    id \notin IndexDescendants(cardRepository, id)

\* c1 is the parent of c2 and c2 is the parent of c1.
C19_Witness ==
  /\ {"c1", "c2"} \subseteq DOMAIN cardRepository.cards
  /\ cardRepository.cards["c1"].parentId = "c2"
  /\ cardRepository.cards["c2"].parentId = "c1"
  /\ Ids(FindChildren(cardRepository, "c1")) = <<"c2">>
  /\ Ids(FindChildren(cardRepository, "c2")) = <<"c1">>

\* The cycles come from the arguments alone: a store in which every
\* parentId names a card created before the card itself would have none.
TraversalRoots == ForestCardIds \cup {"c-unknown"}

\* C20. Traversal terminates: on every card store whose parentId edges form
\* a tree or forest, findAllDescendants(parentId) terminates, having pushed
\* each descendant on its stack exactly once; for a parentId without
\* children, or unknown, it terminates with an empty result.
C20_TraversalTerminates ==
  IsForest(cardRepository) =>
    \A root \in TraversalRoots :
      LET res == FindAllDescendants(cardRepository, root)
      IN /\ res.done
         /\ NoDuplicates(Ids(res.descendants))
         /\ Range(Ids(res.descendants)) = Descendants(cardRepository, root)
         /\ Descendants(cardRepository, root) = {} => res.descendants = <<>>

\* The parentId edges form a forest (c1 is a child of c2, c2 has no parent)
\* and the loop of findAllDescendants("c1") does not end.
C20_Witness ==
  /\ IsForest(cardRepository)
  /\ {"c1", "c2"} \subseteq DOMAIN cardRepository.cards
  /\ cardRepository.cards["c1"].parentId = "c2"
  /\ cardRepository.cards["c2"].parentId = Undefined
  /\ ~FindAllDescendants(cardRepository, "c1").done

\* The parent index lists under each id exactly the live cards whose
\* parentId it is, each once.
ParentIndexExact(R) ==
  \A p \in ForestCardIds :
    /\ Range(FindChildren(R, p)) = LiveCardsWhere(R, "parentId", p)
    /\ NoDuplicates(FindChildren(R, p))

\* What the code guarantees: the traversal is as claimed on a forest whose
\* parent index is exact.
TraversalOnExactIndex ==
  (IsForest(cardRepository) /\ ParentIndexExact(cardRepository)) =>
    \A root \in TraversalRoots :
      LET res == FindAllDescendants(cardRepository, root)
      IN /\ res.done
         /\ NoDuplicates(Ids(res.descendants))
         /\ Range(Ids(res.descendants)) = Descendants(cardRepository, root)

---------------------------------------------------------------------------
(* PaymentService calls in flight together: escrowPayment, releasePayment  *)
(* and refundPayment, each suspended at its awaits                         *)

MaxInflight == 2

SettleOps == {"escrow", "release", "refund"}

\* What the three operations differ in: the status they require, the
\* message of the rejection, the fields they write, the action they log.
Required(op) == IF op = "escrow" THEN "pending" ELSE "escrowed"

StatusMessage(op) ==
  CASE op = "escrow" -> "Payment must be in PENDING status to escrow"
    [] op = "release" -> "Payment must be in ESCROWED status to release"
    [] op = "refund" -> "Payment must be in ESCROWED status to refund"

SettleUpdates(op, paymentId) ==
  CASE op = "escrow" -> [status |-> "escrowed",
                         gatewayTransactionId |-> "gateway_" \o paymentId]
    [] op = "release" -> [status |-> "released"]
    [] op = "refund" -> [status |-> "refunded"]

SettleAction(op) ==
  CASE op = "escrow" -> "ESCROW_PAYMENT"
    [] op = "release" -> "RELEASE_PAYMENT"
    [] op = "refund" -> "REFUND_PAYMENT"

\* The data of the block, from the payment that findById returned.
SettleData(op, paymentId, payment) ==
  CASE op = "escrow" -> [gatewayTransactionId |-> "gateway_" \o paymentId,
                         amount |-> payment.amount]
    [] op = "release" -> [freelancerId |-> payment.freelancerId, amount |-> payment.amount,
                          netAmount |-> payment.amount - payment.platformFee
                                          - payment.gatewayFee]
    [] op = "refund" -> [clientId |-> payment.clientId, amount |-> payment.amount]

NullPayment == [status |-> "<null>"]

\* The call runs up to `await this.paymentRepository.findById(paymentId)`:
\* the payment is read from the map now, the tests on it come after the
\* await.
StartSettle ==
  /\ Len(inflight) < MaxInflight
  /\ Len(ServiceWorld.blocks) + Len(inflight) < MaxMarketBlocks
  /\ \E op \in SettleOps, paymentId \in PaymentIds, actorId \in Clients :
       LET found == paymentId \in DOMAIN paymentRepository.payments
       IN inflight' = Append(inflight,
            [op |-> op, paymentId |-> paymentId, actorId |-> actorId, at |-> "findById",
             found |-> found,
             payment |-> IF found THEN paymentRepository.payments[paymentId]
                         ELSE NullPayment,
             updated |-> FALSE])
  /\ outcome' = Suspended
  /\ UNCHANGED <<chainVars, cardRepository, kanbanVars, returned, marketVars, edits,
                 serviceChain>>

\* The chain of the service after this.chain.addBlock(...).
ServiceAddBlock(action, entityId, data, actorId) ==
  LET r == AddBlockTo(ServiceWorld.blocks, ServiceWorld.blockIndex, action, "Payment",
                      entityId, data, actorId, now)
  IN IF serviceChain = SameChain
       THEN /\ blocks' = r.blocks
            /\ blockIndex' = r.blockIndex
            /\ UNCHANGED serviceChain
       ELSE /\ serviceChain' = [blocks |-> r.blocks, blockIndex |-> r.blockIndex]
            /\ UNCHANGED <<blocks, blockIndex>>

\* One of the suspended calls goes on to its next await, or to its end.
ResumeSettle ==
  \E i \in 1..Len(inflight) :
    LET call == inflight[i]
        others == RemoveAt(inflight, i)
        Leave(result) ==
          /\ inflight' = others
          /\ outcome' = result
          /\ UNCHANGED <<blocks, blockIndex, serviceChain, paymentRepository>>
    IN /\ CASE call.at = "findById" ->
                 IF ~call.found THEN Leave(Threw("Payment not found"))
                 ELSE IF call.payment.status # Required(call.op)
                   THEN Leave(Threw(StatusMessage(call.op)))
                 ELSE \* await this.processEscrow / processRelease / processRefund
                      /\ inflight' = [inflight EXCEPT ![i].at = "process"]
                      /\ outcome' = Suspended
                      /\ UNCHANGED <<blocks, blockIndex, serviceChain, paymentRepository>>
            [] call.at = "process" ->
                 IF call.payment.gateway \notin SupportedGateways
                   THEN Leave(Threw("Unsupported payment gateway"))
                 ELSE \* await this.paymentRepository.update(paymentId, {...})
                      LET r == PaymentUpdate(paymentRepository, call.paymentId,
                                             SettleUpdates(call.op, call.paymentId))
                      IN /\ paymentRepository' = r.repo
                         /\ inflight' = [inflight EXCEPT ![i].at = "update",
                                                         ![i].updated = r.found]
                         /\ outcome' = Suspended
                         /\ UNCHANGED <<blocks, blockIndex, serviceChain>>
            [] call.at = "update" ->
                 IF ~call.updated THEN Leave(Threw("Failed to update payment"))
                 ELSE /\ ServiceAddBlock(SettleAction(call.op), call.paymentId,
                                         SettleData(call.op, call.paymentId, call.payment),
                                         call.actorId)
                      /\ inflight' = others
                      /\ outcome' = Returned
                      /\ UNCHANGED paymentRepository
       /\ UNCHANGED <<now, cardRepository, kanbanVars, returned, projectRepository,
                      proposalRepository, edits>>

\* createPayment and disputePayment, while no other call is suspended.
CreatePaymentAlone == inflight = <<>> /\ CreatePaymentCall

DisputePaymentAlone == inflight = <<>> /\ DisputePaymentCall

NextSettle == CreatePaymentAlone \/ DisputePaymentAlone \/ StartSettle \/ ResumeSettle

SpecSettle == Init /\ [][NextSettle]_vars

\* The blocks the service chain holds for a payment, as their actions.
PaymentBlocks(paymentId) ==
  LET bs == ServiceWorld.blocks
      own == SelectSeq(bs, LAMBDA b : b.entityId = paymentId)
  IN [i \in 1..Len(own) |-> own[i].action]

Settlements == {"RELEASE_PAYMENT", "REFUND_PAYMENT"}

\* C25. No double settlement under interleaving: when two calls that settle
\* the same escrowed payment (releasePayment twice, or releasePayment and
\* refundPayment) are in flight together and interleave at their awaits, at
\* most one of them succeeds and at most one RELEASE_PAYMENT or
\* REFUND_PAYMENT block is appended for the payment.
C25_NoDoubleSettlement ==
  \A id \in PaymentIds :
    Cardinality({i \in 1..Len(PaymentBlocks(id)) :
                   PaymentBlocks(id)[i] \in Settlements}) <= 1

\* A release and a refund of the same payment have both read it as escrowed
\* and both ended with their block.
C25_Witness ==
  /\ inflight = <<>>
  /\ \E id \in PaymentIds :
       /\ Occurrences(PaymentBlocks(id), "RELEASE_PAYMENT") = 1
       /\ Occurrences(PaymentBlocks(id), "REFUND_PAYMENT") = 1

\* The positions of an action among the blocks of a payment.
PositionsOf(actions, wanted) == {i \in 1..Len(actions) : actions[i] \in wanted}

FlowInOrder(actions) ==
  /\ actions # <<>> => actions[1] = "CREATE_PAYMENT"
  /\ Cardinality(PositionsOf(actions, {"ESCROW_PAYMENT"})) <= 1
  /\ \A i \in PositionsOf(actions, {"ESCROW_PAYMENT"}) :
       \E j \in PositionsOf(actions, {"CREATE_PAYMENT"}) : j < i
  /\ \A i \in PositionsOf(actions, Settlements) :
       \E j \in PositionsOf(actions, {"ESCROW_PAYMENT"}) : j < i
  /\ Cardinality(PositionsOf(actions, Settlements)) <= 1

---------------------------------------------------------------------------
(* The project commands alone *)

MaxCommandBlocks == 8

CommandsOpen == Len(blocks) < MaxCommandBlocks

\* The milestone ids of a first and of a second acceptance.
CommandMilestoneIds == {NanoId("milestone", n) : n \in 1..4} \cup {"milestone-x"}

CreateProjectCommand ==
  /\ CommandsOpen
  /\ Cardinality(DOMAIN projectRepository.projects) < MaxProjects
  /\ \E clientId \in Clients, amount \in Amounts :
       Run(CreateProjectExecute(World,
             NanoId("project", Cardinality(DOMAIN projectRepository.projects) + 1),
             clientId, amount, clientId, now))

PublishProjectCommand ==
  /\ CommandsOpen
  /\ \E projectId \in ProjectIds, actorId \in Clients :
       Run(PublishProjectExecute(World, projectId, actorId, now))

SubmitProposalCommand ==
  /\ CommandsOpen
  /\ Cardinality(DOMAIN proposalRepository.proposals) < MaxProposals
  /\ \E projectId \in ProjectIds, freelancerId \in Freelancers, amount \in Amounts,
        milestones \in MilestonePlans :
       Run(SubmitProposalExecute(World,
             NanoId("proposal", Cardinality(DOMAIN proposalRepository.proposals) + 1),
             projectId, freelancerId, amount, milestones, now))

AcceptProposalCommand ==
  /\ CommandsOpen
  /\ \E proposalId \in ProposalIds, actorId \in Clients :
       Run(AcceptProposalExecute(World, proposalId, actorId, now))

SubmitMilestoneCommand ==
  /\ CommandsOpen
  /\ \E projectId \in ProjectIds, milestoneId \in CommandMilestoneIds,
        actorId \in {"freelancer-1"} :
       Run(SubmitMilestoneExecute(World, projectId, milestoneId, actorId, now))

ApproveMilestoneCommand ==
  /\ CommandsOpen
  /\ \E projectId \in ProjectIds, milestoneId \in CommandMilestoneIds, actorId \in Clients :
       Run(ApproveMilestoneExecute(World, projectId, milestoneId, actorId, now))

NextCommands ==
  \/ CreateProjectCommand \/ PublishProjectCommand \/ SubmitProposalCommand
  \/ AcceptProposalCommand \/ SubmitMilestoneCommand \/ ApproveMilestoneCommand

SpecCommands == Init /\ [][NextCommands]_vars

ActionsOf(entityId) ==
  LET own == GetHistory(entityId) IN [i \in 1..Len(own) |-> own[i].action]

\* The proposal is already accepted or rejected, or its project is already
\* assigned, in progress or completed.
PastReview(proposalId) ==
  /\ proposalId \in DOMAIN proposalRepository.proposals
  /\ LET proposal == proposalRepository.proposals[proposalId]
     IN \/ proposal.status \in {"accepted", "rejected"}
        \/ /\ proposal.projectId \in DOMAIN projectRepository.projects
           /\ projectRepository.projects[proposal.projectId].status
                \in {"assigned", "in_progress", "completed"}

\* C22. Accepting a proposal is guarded: AcceptProposalCommand applied to a
\* proposal that is already accepted or rejected, or whose project is
\* already ASSIGNED, IN_PROGRESS or COMPLETED, fails and leaves the proposal,
\* the project (status, budget, milestones) and the chain unchanged.
C22_AcceptGuarded ==
  [][\A proposalId \in ProposalIds, actorId \in Clients :
       (/\ PastReview(proposalId)
        /\ Run(AcceptProposalExecute(World, proposalId, actorId, now)))
         => /\ outcome'.status = "threw"
            /\ UNCHANGED <<proposalRepository, projectRepository, blocks>>]_vars

\* A proposal has been accepted twice, the second time on a project whose
\* first milestone had been submitted: the milestone is in progress again.
C22_Witness ==
  \E proposalId \in DOMAIN proposalRepository.proposals :
    LET project == projectRepository.projects[proposalRepository.proposals[proposalId].projectId]
    IN /\ Occurrences(ActionsOf(proposalId), "ACCEPT_PROPOSAL") = 2
       /\ Occurrences([i \in 1..Len(blocks) |-> blocks[i].action], "SUBMIT_MILESTONE") = 1
       /\ project.status = "assigned"
       /\ project.milestones[1].status = "in_progress"

StatusRank(status) ==
  CASE status = "draft" -> 0
    [] status = "open" -> 1
    [] status = "in_review" -> 2
    [] status = "assigned" -> 3
    [] status = "in_progress" -> 4
    [] status = "completed" -> 5
    [] OTHER -> 6

\* C27. Project status only moves forward: under any sequence of the six
\* project commands a project's status never moves backward in the order
\* DRAFT < OPEN < IN_REVIEW < ASSIGNED < IN_PROGRESS < COMPLETED; a
\* COMPLETED project stays COMPLETED.
C27_StatusMovesForward ==
  [][\A id \in DOMAIN projectRepository.projects :
       /\ id \in DOMAIN projectRepository'.projects
       /\ StatusRank(projectRepository'.projects[id].status)
            >= StatusRank(projectRepository.projects[id].status)]_vars

\* The last milestone of a project has been approved, which completed the
\* project, and the project is assigned.
C27_Witness ==
  /\ \E i \in 1..Len(blocks) :
       /\ blocks[i].action = "APPROVE_MILESTONE"
       /\ blocks[i].data.allCompleted
  /\ \E id \in DOMAIN projectRepository.projects :
       projectRepository.projects[id].status = "assigned"

---------------------------------------------------------------------------
(* Settled payments *)

Settled == {"released", "refunded"}

\* C26. Settled payments stay settled: once a payment has status RELEASED
\* or REFUNDED, no PaymentService operation (escrowPayment, releasePayment,
\* refundPayment, disputePayment) changes its status or appends a further
\* block for it.
C26_SettledStaysSettled ==
  [][\A id \in DOMAIN paymentRepository.payments :
       paymentRepository.payments[id].status \in Settled =>
         /\ id \in DOMAIN paymentRepository'.payments
         /\ paymentRepository'.payments[id].status = paymentRepository.payments[id].status
         /\ PaymentBlocks(id)' = PaymentBlocks(id)]_vars

\* A released payment has been disputed: its status is DISPUTED and a
\* DISPUTE_PAYMENT block follows its RELEASE_PAYMENT block.
C26_Witness ==
  \E id \in DOMAIN paymentRepository.payments :
    /\ paymentRepository.payments[id].status = "disputed"
    /\ PaymentBlocks(id) = <<"CREATE_PAYMENT", "ESCROW_PAYMENT", "RELEASE_PAYMENT",
                             "DISPUTE_PAYMENT">>

\* escrowPayment, releasePayment and refundPayment leave a settled payment
\* as it is.
SettledKeptBySettleOperations ==
  [][\A id \in DOMAIN paymentRepository.payments :
       (/\ paymentRepository.payments[id].status \in Settled
        /\ ~(\E actorId \in Clients :
               RunService(DisputePayment(ServiceWorld, id, "late", actorId, now))))
         => /\ id \in DOMAIN paymentRepository'.payments
            /\ paymentRepository'.payments[id].status = paymentRepository.payments[id].status
            /\ PaymentBlocks(id)' = PaymentBlocks(id)]_vars

---------------------------------------------------------------------------
(* Milestones *)

MilestoneStatuses(project) ==
  [k \in 1..Len(project.milestones) |-> project.milestones[k].status]

\* approved*, then at most one in_progress or submitted, then pending*
InOrderShape(statuses) ==
  \E a \in 0..Len(statuses) :
    /\ \A k \in 1..a : statuses[k] = "approved"
    /\ \/ a = Len(statuses)
       \/ /\ statuses[a + 1] \in {"in_progress", "submitted", "pending"}
          /\ \A k \in (a + 2)..Len(statuses) : statuses[k] = "pending"

\* The status of a milestone id in a project repository, Absent if none.
MilestoneStatus(P, milestoneId) ==
  LET found == {<<p, k>> \in (DOMAIN P.projects) \X (1..2) :
                  /\ k <= Len(P.projects[p].milestones)
                  /\ P.projects[p].milestones[k].id = milestoneId}
  IN IF found = {} THEN Absent
     ELSE LET at == CHOOSE x \in found : TRUE
          IN P.projects[at[1]].milestones[at[2]].status

\* The status of the milestone before milestoneId in its project; approved
\* for a first milestone.
PreviousStatus(P, milestoneId) ==
  LET found == {<<p, k>> \in (DOMAIN P.projects) \X (1..2) :
                  /\ k <= Len(P.projects[p].milestones)
                  /\ P.projects[p].milestones[k].id = milestoneId}
      at == CHOOSE x \in found : TRUE
  IN IF at[2] = 1 THEN "approved" ELSE P.projects[at[1]].milestones[at[2] - 1].status

\* C29. Milestones advance one at a time and in order: in every project
\* whose milestones were created by AcceptProposalCommand the milestone list
\* always has the shape approved*, at most one in_progress or submitted,
\* pending*; a milestone becomes submitted only from in_progress, approved
\* only from submitted, and milestone i+1 leaves pending only when
\* milestone i is approved.
C29_MilestonesInOrder ==
  /\ [](\A p \in DOMAIN projectRepository.projects :
          /\ InOrderShape(MilestoneStatuses(projectRepository.projects[p]))
          /\ \A k \in 1..Len(projectRepository.projects[p].milestones) :
               projectRepository.projects[p].milestones[k].status = "in_progress"
                 => \A j \in 1..(k - 1) :
                      projectRepository.projects[p].milestones[j].status = "approved")
  /\ [][\A m \in CommandMilestoneIds :
          LET before == MilestoneStatus(projectRepository, m)
              after == MilestoneStatus(projectRepository', m)
          IN (before # Absent /\ after # Absent /\ before # after) =>
               /\ after = "submitted" => before = "in_progress"
               /\ after = "approved" => before = "submitted"
               /\ before = "pending" =>
                    /\ after = "in_progress"
                    /\ PreviousStatus(projectRepository', m) = "approved"]_vars

\* The first of two milestones is approved and the second one submitted.
C29_Witness ==
  \E p \in DOMAIN projectRepository.projects :
    MilestoneStatuses(projectRepository.projects[p]) = <<"approved", "submitted">>

---------------------------------------------------------------------------
(* Proposals of a project *)

ProposalsHeld(projectId) ==
  Cardinality(ProposalFindByProject(proposalRepository, projectId))

---------------------------------------------------------------------------
(* Positions within a column *)

\* The ids of a column's list that are stored, in the order of the list.
ColumnList(R, columnId) == Ids(LiveCards(R, MapGet(R.columnIndex, columnId, <<>>)))

Contiguous(R, columnId) ==
  LET ids == ColumnList(R, columnId)
  IN /\ \A i \in 1..Len(ids) : R.cards[ids[i]].position = i - 1
     /\ Ids(FindByColumn(R, columnId)) = ids

\* C23. Contiguous positions: after every operation of any sequence of
\* create, update (updates that change columnId included), move and delete,
\* the cards of each column have positions exactly 0, 1, ..., n-1 with no
\* gap and no duplicate, and findByColumn returns them in the order of the
\* column's id list.
C23_ContiguousPositions == \A columnId \in Columns : Contiguous(cardRepository, columnId)

\* Two cards are in column done, both with position 0; one of them was
\* created in todo and came by update.
C23_Witness ==
  /\ Len(ColumnList(cardRepository, "done")) = 2
  /\ \A id \in Range(ColumnList(cardRepository, "done")) :
       cardRepository.cards[id].position = 0
  /\ ColumnList(cardRepository, "todo") = <<>>

---------------------------------------------------------------------------
(* move on columns of up to three cards *)

MoveCardIds == {"c1", "c2", "c3"}

MaxMovePosition == 2

MoveCreate == RepoCreateIn(MoveCardIds, {"b1"}, Columns, {})

\* update(id, { columnId })
MoveUpdate ==
  \E id \in MoveCardIds, columnId \in Columns :
    LET r == CardUpdate(cardRepository, id, [NoUpdates EXCEPT !.columnId = columnId])
    IN /\ cardRepository' = r.repo
       /\ outcome' = r.outcome
       /\ UNCHANGED <<chainVars, restVars>>

MoveMove ==
  \E id \in MoveCardIds, toColumnId \in Columns, position \in 0..MaxMovePosition :
    LET r == CardMove(cardRepository, id, toColumnId, position)
    IN /\ cardRepository' = r.repo
       /\ outcome' = r.outcome
       /\ UNCHANGED <<chainVars, restVars>>

MoveDelete ==
  \E id \in MoveCardIds :
    LET r == CardDelete(cardRepository, id)
    IN /\ cardRepository' = r.repo
       /\ outcome' = r.outcome
       /\ UNCHANGED <<chainVars, restVars>>

NextMove == MoveCreate \/ MoveUpdate \/ MoveMove \/ MoveDelete

SpecMove == Init /\ [][NextMove]_vars

Without(seq, x) == SelectSeq(seq, LAMBDA y : y # x)

Numbered(R, columnId) ==
  \A i \in 1..Len(ColumnList(R, columnId)) :
    R.cards[ColumnList(R, columnId)[i]].position = i - 1

\* C30. Move semantics: move(cardId, toColumn, p) on a live card, with
\* 0 <= p <= number of other cards in toColumn, removes the card from its
\* previous column, inserts it at index p of toColumn, keeps the relative
\* order of all other cards in both columns, sets the card's columnId to
\* toColumn and leaves both columns numbered 0..n-1, also when toColumn is
\* the card's current column.
C30_MoveSemantics ==
  [][\A id \in DOMAIN cardRepository.cards, toColumnId \in Columns,
        p \in 0..MaxMovePosition :
        LET fromColumnId == cardRepository.cards[id].columnId
            r == CardMove(cardRepository, id, toColumnId, p)
        IN (/\ p <= Len(Without(ColumnList(cardRepository, toColumnId), id))
            /\ outcome' = r.outcome
            /\ cardRepository' = r.repo)
             => /\ cardRepository'.cards[id].columnId = toColumnId
                /\ ColumnList(cardRepository', toColumnId)[p + 1] = id
                /\ \A columnId \in Columns :
                     /\ Without(ColumnList(cardRepository', columnId), id)
                          = Without(ColumnList(cardRepository, columnId), id)
                     /\ columnId # toColumnId =>
                          ~Includes(ColumnList(cardRepository', columnId), id)
                /\ Occurrences(ColumnList(cardRepository', toColumnId), id) = 1
                /\ Numbered(cardRepository', toColumnId)
                /\ Numbered(cardRepository', fromColumnId)]_vars

\* Three cards are in column done in the order c2, c3, c1, numbered 0, 1
\* and 2, and column todo is empty.
C30_Witness ==
  /\ ColumnList(cardRepository, "done") = <<"c2", "c3", "c1">>
  /\ Numbered(cardRepository, "done")
  /\ ColumnList(cardRepository, "todo") = <<>>
  /\ outcome = Returned

---------------------------------------------------------------------------
(* An edit of a block followed by the recomputation of its hash *)

\* The chain after blocks[k].field = value and blocks[k].hash =
\* blocks[k].calculateHash().
Rehashed(bs, k, field, value) ==
  LET edited == Tamper(bs, k, field, value)
  IN Tamper(edited, k, "hash", CalculateHash(edited[k + 1]))

BrokenAt(number) ==
  [valid |-> FALSE, brokenAtBlock |-> number, error |-> ChainBroken, threw |-> FALSE]

\* The edits of block k whose hash can be recomputed and differs.
VisibleEdits(k, field) ==
  {value \in TamperValues(field) :
     /\ value # blocks[k + 1][field]
     /\ ~HashThrows(Tamper(blocks, k, field, value)[k + 1])
     /\ CalculateHash(Tamper(blocks, k, field, value)[k + 1]) # blocks[k + 1].hash}

---------------------------------------------------------------------------
(* The queries on an imported chain *)

\* getStats().uniqueEntities and totalBlocks of a chain
StatsOf(bs, idx) ==
  [totalBlocks |-> Len(bs), uniqueEntities |-> Cardinality(DOMAIN idx)]

\* C31. Round trip preserves the query view: for every chain c built by
\* addBlock and every entityId e, "genesis" included, getHistory(e) on
\* Chain.fromJSON(c.toJSON()) lists the same blocks as getHistory(e) on c,
\* and getStats().uniqueEntities and totalBlocks are equal on both chains.
C31_RoundTripQueries ==
  LET copy == ChainFromJSON(ChainToJSON, now)
  IN /\ \A e \in QueriedIds :
          GetHistoryOf(copy.blocks, copy.blockIndex, e) = GetHistory(e)
     /\ StatsOf(copy.blocks, copy.blockIndex) = StatsOf(blocks, blockIndex)
     /\ StatsOf(blocks, blockIndex).totalBlocks = GetStats.totalBlocks
     /\ StatsOf(blocks, blockIndex).uniqueEntities = GetStats.uniqueEntities

\* A chain with blocks of one card was exported and imported: the copy
\* lists the genesis block under "genesis", the original lists nothing, and
\* the copy counts one entity more.
C31_Witness ==
  /\ returned.kind = "fromJSON"
  /\ returned.value.blocks = blocks
  /\ Len(GetHistory("card-1")) = 2
  /\ GetHistory("genesis") = <<>>
  /\ GetHistoryOf(returned.value.blocks, returned.value.blockIndex, "genesis") = <<blocks[1]>>
  /\ Cardinality(DOMAIN returned.value.blockIndex) = Cardinality(DOMAIN blockIndex) + 1

---------------------------------------------------------------------------
(* What a MOVE_CARD block records *)

\* The step in which Application.moveCard runs CardRepository.move.
MoveApplied ==
  /\ Len(pending') = Len(pending) + 1
  /\ pending'[Len(pending')].action = "MOVE_CARD"

\* C32. Recorded origin is accurate: for every MOVE_CARD block of the chain,
\* data.fromColumnId is the columnId the card had in CardRepository just
\* before that move was applied, and data.position is the index the card
\* has in the target column right after the move; the block appended for
\* the move carries the data of its command.
C32_RecordedOrigin ==
  [][/\ MoveApplied =>
          LET command == pending'[Len(pending')]
              cardId == command.entityId
          IN /\ command.data.fromColumnId = cardRepository.cards[cardId].columnId
             /\ command.data.position =
                  IndexOf(cardRepository'.columnIndex[command.data.toColumnId], cardId) - 1
     /\ (Len(blocks') = Len(blocks) + 1 /\ pending # <<>>) =>
          /\ blocks'[Len(blocks')].action = Head(pending).action
          /\ blocks'[Len(blocks')].data = Head(pending).data]_vars

\* The only card, created in column todo, was moved once: its MOVE_CARD
\* block says it came from column done and went to index 1 of column done,
\* where it is alone at index 0.
C32_Witness ==
  LET cardId == NanoId("card", 1)
      history == GetHistory(cardId)
  IN /\ pending = <<>>
     /\ DOMAIN cardRepository.cards = {cardId}
     /\ Len(history) = 2
     /\ history[1].action = "CREATE_CARD"
     /\ history[1].data.columnId = "todo"
     /\ history[2].action = "MOVE_CARD"
     /\ history[2].data.fromColumnId = "done"
     /\ history[2].data.toColumnId = "done"
     /\ history[2].data.position = 1
     /\ cardRepository.columnIndex["done"] = <<cardId>>
     /\ cardRepository.cards[cardId].position = 0

---------------------------------------------------------------------------
(* Commands in flight together, resumed in any order *)

\* The continuation of any suspended entry point: addToChain, one call that
\* runs to its end before anything else does.
AppResumeAny ==
  \E i \in 1..Len(pending) :
    /\ LET r == AddToChain(blocks, blockIndex, pending[i], now)
       IN /\ blocks' = r.blocks
          /\ blockIndex' = r.blockIndex
    /\ pending' = RemoveAt(pending, i)
    /\ outcome' = Returned
    /\ UNCHANGED <<now, cardRepository, boardRepository, opLog, returned,
                   marketVars, auxVars>>

NextInterleave ==
  \/ AppCreateBoard \/ AppCreateCard \/ AppMoveCard \/ AppUpdateCard
  \/ AppAssignCard \/ AppResumeAny

SpecInterleave == Init /\ [][NextInterleave]_vars

\* The entity a command acts on is stored: its repository call has run.
Mutated(command) ==
  IF command.action = "CREATE_BOARD"
    THEN command.entityId \in DOMAIN boardRepository.boards
    ELSE command.entityId \in DOMAIN cardRepository.cards

\* C33. Appends are atomic under interleaving: with several asynchronous
\* commands in flight, resumed in any order, every block number equals the
\* block's index (no duplicate, no gap), every block is linked to the hash
\* of the block before it, every appended block belongs to a command whose
\* repository call has run, and the step that appends a block appends
\* exactly that one block, for a suspended command, and does nothing else.
C33_AtomicAppends ==
  /\ [](/\ \A i \in 1..Len(blocks) : blocks[i].blockNumber = i - 1
        /\ \A i \in 2..Len(blocks) : blocks[i].previousHash = blocks[i - 1].hash
        /\ \A i \in 2..Len(blocks) : blocks[i].hash = CalculateHash(blocks[i])
        /\ Len(blocks) - 1 + Len(pending) = Len(opLog)
        /\ \A i \in 1..Len(pending) : Mutated(pending[i])
        /\ \A i \in 2..Len(blocks) : Mutated(blocks[i]))
  /\ [][blocks' # blocks =>
          /\ Len(blocks') = Len(blocks) + 1
          /\ IsPrefix(blocks, blocks')
          /\ cardRepository' = cardRepository
          /\ boardRepository' = boardRepository
          /\ \E i \in 1..Len(pending) :
               /\ pending' = RemoveAt(pending, i)
               /\ Mutated(pending[i])
               /\ blocks'[Len(blocks')].action = pending[i].action
               /\ blocks'[Len(blocks')].entityId = pending[i].entityId
               /\ blocks'[Len(blocks')].data = pending[i].data]_vars

\* Two commands were in flight together and the one started last was
\* resumed first: the chain has the update of the card before the move of
\* the card.
C33_Witness ==
  /\ Len(blocks) = 4
  /\ pending = <<>>
  /\ Len(opLog) = 3
  /\ opLog[2].action = "MOVE_CARD"
  /\ opLog[3].action = "UPDATE_CARD"
  /\ blocks[3].action = "UPDATE_CARD"
  /\ blocks[4].action = "MOVE_CARD"
  /\ blocks[4].blockNumber = 3
  /\ blocks[4].previousHash = blocks[3].hash

---------------------------------------------------------------------------
(* Edits of the genesis block *)

\* Hash values that are not the hash the genesis block carries.
OtherHashes(bs) ==
  ({ZeroHash, <<"f">>} \cup {bs[i].hash : i \in 2..Len(bs)}) \ {bs[1].hash}

\* The step is an assignment to a field of the genesis block.
GenesisEdited ==
  /\ Len(blocks') = Len(blocks)
  /\ blocks'[1] # blocks[1]
  /\ \A i \in 2..Len(blocks) : blocks'[i] = blocks[i]

---------------------------------------------------------------------------
(* The position of a created card *)

SuppliedPositions == 0..(MaxMovePosition + 1)

\* The number of stored cards whose columnId is columnId.
CardsIn(R, columnId) ==
  Cardinality({id \in DOMAIN R.cards : R.cards[id].columnId = columnId})

\* C35. Position on create: CardRepository.create sets the new card's
\* position to the number of cards in the target column just before the
\* insertion and appends the card's id at the end of that column's ordered
\* list, whatever position value the caller supplied; the other cards and
\* the lists of the other columns stay as they were.
C35_PositionOnCreate ==
  /\ [](\A id \in MoveCardIds \ DOMAIN cardRepository.cards, columnId \in Columns,
           position \in SuppliedPositions :
          LET R == cardRepository
              card == [NewCard(id, "b1", columnId, Undefined, Undefined)
                         EXCEPT !.position = position]
              before == MapGet(R.columnIndex, columnId, <<>>)
              after == CardCreate(R, card).repo
          IN /\ Len(before) = CardsIn(R, columnId)
             /\ after.cards[id].position = CardsIn(R, columnId)
             /\ after.cards[id].columnId = columnId
             /\ after.columnIndex[columnId] = Append(before, id)
             /\ \A other \in DOMAIN R.cards : after.cards[other] = R.cards[other]
             /\ \A c \in Columns \ {columnId} :
                  MapGet(after.columnIndex, c, <<>>) = MapGet(R.columnIndex, c, <<>>))
  /\ [][\A id \in MoveCardIds :
          (id \notin DOMAIN cardRepository.cards /\ id \in DOMAIN cardRepository'.cards) =>
            LET columnId == cardRepository'.cards[id].columnId
            IN /\ cardRepository'.cards[id].position = CardsIn(cardRepository, columnId)
               /\ cardRepository'.columnIndex[columnId] =
                    Append(MapGet(cardRepository.columnIndex, columnId, <<>>), id)]_vars

\* Three cards were created in column todo, c2 before c1 before c3, and
\* carry the positions 0, 1 and 2.
C35_Witness ==
  /\ outcome = Returned
  /\ DOMAIN cardRepository.cards = MoveCardIds
  /\ MapGet(cardRepository.columnIndex, "todo", <<>>) = <<"c2", "c1", "c3">>
  /\ cardRepository.cards["c2"].position = 0
  /\ cardRepository.cards["c1"].position = 1
  /\ cardRepository.cards["c3"].position = 2

---------------------------------------------------------------------------
(* The effect of a proposal submission *)

\* The guards of SubmitProposalCommand.execute on world W.
MaySubmit(W, projectId, freelancerId) ==
  /\ projectId \in DOMAIN W.projectRepository.projects
  /\ W.projectRepository.projects[projectId].status = "open"
  /\ \A id \in DOMAIN W.proposalRepository.proposals :
       ~(/\ W.proposalRepository.proposals[id].projectId = projectId
         /\ W.proposalRepository.proposals[id].freelancerId = freelancerId)

\* What C36 says of execute() on world W.
SubmissionAsStated(W, projectId, freelancerId, amount, milestones) ==
  LET proposalId == NanoId("proposal", Cardinality(DOMAIN W.proposalRepository.proposals) + 1)
      r == SubmitProposalExecute(W, proposalId, projectId, freelancerId, amount,
                                 milestones, now)
      after == r.world
  IN /\ (r.outcome = Returned) <=> MaySubmit(W, projectId, freelancerId)
     /\ r.outcome # Returned =>
          /\ r.outcome.status = "threw"
          /\ after = W
     /\ r.outcome = Returned =>
          /\ DOMAIN after.proposalRepository.proposals =
               DOMAIN W.proposalRepository.proposals \cup {proposalId}
          /\ after.proposalRepository.proposals[proposalId].status = "submitted"
          /\ after.proposalRepository.proposals[proposalId].projectId = projectId
          /\ after.proposalRepository.proposals[proposalId].freelancerId = freelancerId
          /\ after.projectRepository.projects[projectId].proposals =
               Append(W.projectRepository.projects[projectId].proposals,
                      after.proposalRepository.proposals[proposalId])
          /\ after.projectRepository.projects[projectId].status = "in_review"
          /\ Len(after.blocks) = Len(W.blocks) + 1
          /\ IsPrefix(W.blocks, after.blocks)
          /\ after.blocks[Len(after.blocks)].action = "SUBMIT_PROPOSAL"
          /\ after.blocks[Len(after.blocks)].entityId = proposalId
          /\ after.blocks[Len(after.blocks)].entityType = "Proposal"

\* World W after projectRepository.update(projectId, { status: OPEN }).
Reopened(W, projectId) ==
  [W EXCEPT !.projectRepository = ProjectUpdate(@, projectId, [status |-> "open"]).repo]

\* C36. Proposal submission: SubmitProposalCommand succeeds only if the
\* project exists, has status OPEN and the freelancer has no proposal for
\* it yet; on success it stores a proposal with status 'submitted', adds it
\* to project.proposals, sets the project status to IN_REVIEW and appends
\* exactly one SUBMIT_PROPOSAL block whose entityId is the proposal id; a
\* rejected command changes nothing. Checked in every state the commands
\* reach, and in that state with the project set back to OPEN through the
\* repository, and on every submission step.
C36_ProposalSubmission ==
  /\ [](\A projectId \in ProjectIds, freelancerId \in Freelancers, amount \in Amounts,
           milestones \in MilestonePlans :
          /\ SubmissionAsStated(World, projectId, freelancerId, amount, milestones)
          /\ SubmissionAsStated(Reopened(World, projectId), projectId, freelancerId,
                                amount, milestones))
  /\ [][DOMAIN proposalRepository'.proposals # DOMAIN proposalRepository.proposals =>
          \E proposalId \in DOMAIN proposalRepository'.proposals :
            LET proposal == proposalRepository'.proposals[proposalId]
            IN /\ proposalId \notin DOMAIN proposalRepository.proposals
               /\ MaySubmit(World, proposal.projectId, proposal.freelancerId)
               /\ proposal.status = "submitted"
               /\ projectRepository'.projects[proposal.projectId].status = "in_review"
               /\ blocks' = Append(blocks, blocks'[Len(blocks')])
               /\ blocks'[Len(blocks')].action = "SUBMIT_PROPOSAL"
               /\ blocks'[Len(blocks')].entityId = proposalId]_vars

\* The first proposal for a project has just been submitted; a second one
\* from the same freelancer would be refused for the status, and with the
\* project set back to OPEN for the proposal the freelancer holds.
C36_Witness ==
  /\ outcome = Returned
  /\ blocks[Len(blocks)].action = "SUBMIT_PROPOSAL"
  /\ \E projectId \in DOMAIN projectRepository.projects :
       /\ projectRepository.projects[projectId].status = "in_review"
       /\ Len(projectRepository.projects[projectId].proposals) = 1
       /\ blocks[Len(blocks)].entityId = projectRepository.projects[projectId].proposals[1].id
       /\ ~MaySubmit(Reopened(World, projectId), projectId,
                     projectRepository.projects[projectId].proposals[1].freelancerId)
       /\ MaySubmit(Reopened(World, projectId), projectId, "freelancer-2")

---------------------------------------------------------------------------
(* Replay without a timestamp *)

\* C37. Unfiltered replay: for every entityId s that can be passed to
\* addBlock, the empty string included, replayEvents(s) without a timestamp
\* returns the same sequence as getHistory(s), and replayEvents() with no
\* arguments returns the whole chain including the genesis block.
C37_UnfilteredReplay ==
  /\ \A s \in EntityIds : ReplayEvents(s, NoTime) = GetHistory(s)
  /\ ReplayEvents(Undefined, NoTime) = blocks
  /\ ReplayEvents(Undefined, NoTime)[1].entityId = "genesis"

\* The part of C37 that holds: non-empty ids, and no arguments.
UnfilteredReplayNonEmptyId ==
  /\ \A s \in QueriedIds \ {""} : ReplayEvents(s, NoTime) = GetHistory(s)
  /\ ReplayEvents(Undefined, NoTime) = blocks
  /\ ReplayEvents(Undefined, NoTime)[1].entityId = "genesis"

\* A block was appended under the empty id and one under another id:
\* replayEvents('') returns all three blocks, getHistory('') the one.
C37_Witness ==
  /\ Len(blocks) = 3
  /\ Len(GetHistory("")) = 1
  /\ Len(GetHistory("card-1")) = 1
  /\ ReplayEvents("", NoTime) = blocks
  /\ ReplayEvents("card-1", NoTime) = GetHistory("card-1")

====
